---------------------------- MODULE Spec2Model ----------------------------
(***************************************************************************)
(* Storage-configuration dependency resolver (curtin/storage_config.py)    *)
(* and partition-table layout engine (curtin/commands/block_meta_v2.py).   *)
(*                                                                         *)
(* A storage item is a record                                              *)
(*    [id, type, key, f]                                                   *)
(* id   : the item id (a natural number; ids compare like the strings of  *)
(*        the program compare),                                            *)
(* type : the storage type name,                                           *)
(* key  : the value of the field named by _stype_to_order_key(type)        *)
(*        (equal to id for the types ordered by 'id'),                     *)
(* f    : the dependency fields the item holds: a function from the names  *)
(*        of the fields present to their values.  A field value is a      *)
(*        record [list, v]: list = the value is a python list, v = the    *)
(*        referenced ids (one id when the value is no list).              *)
(***************************************************************************)
EXTENDS Integers, Sequences, FiniteSets, TLC

(***************************************************************************)
(* Bounds of the model.                                                    *)
(***************************************************************************)
MaxItems == 3

(***************************************************************************)
(* Generic sequence helpers.                                               *)
(***************************************************************************)
Range(s) == {s[i] : i \in 1..Len(s)}

IndexOf(s, x) == CHOOSE i \in 1..Len(s) : s[i] = x /\ \A j \in 1..(i - 1) : s[j] # x

RECURSIVE Uniq(_, _)
Uniq(s, acc) ==
    IF s = <<>> THEN acc
    ELSE Uniq(Tail(s), IF Head(s) \in Range(acc) THEN acc ELSE Append(acc, Head(s)))

Reverse(s) == [i \in 1..Len(s) |-> s[Len(s) + 1 - i]]

\* python's sorted(..., key=...): a stable sort.  keys[i] is the key of s[i].
\* InsertIdx puts index i after every index whose key is <= keys[i].
RECURSIVE InsertIdx(_, _, _)
InsertIdx(idx, i, keys) ==
    IF idx = <<>> THEN <<i>>
    ELSE IF keys[Head(idx)] <= keys[i]
         THEN <<Head(idx)>> \o InsertIdx(Tail(idx), i, keys)
         ELSE <<i>> \o idx

RECURSIVE SortIdx(_, _, _)
SortIdx(i, idx, keys) ==
    IF i > Len(keys) THEN idx ELSE SortIdx(i + 1, InsertIdx(idx, i, keys), keys)

sorted(s, keys) == LET idx == SortIdx(1, <<>>, keys) IN [j \in 1..Len(s) |-> s[idx[j]]]

(***************************************************************************)
(* Item schema and type registry.                                          *)
(***************************************************************************)
\* The storage type names in python string order (sorted(sreg.keys())).
STORAGE_CONFIG_TYPES ==
    <<"bcache", "dasd", "disk", "dm_crypt", "format", "lvm_partition",
      "lvm_volgroup", "mount", "partition", "raid", "zfs", "zpool">>

TypeRank(t) == IndexOf(STORAGE_CONFIG_TYPES, t)

\* _stype_to_deps: the dependency field names of a type.  The program holds
\* them in a set; the sequence here is one fixed listing of it and
\* DepKeyOrder gives the iteration orders of the set.
_stype_to_deps(stype) ==
    CASE stype = "bcache" -> <<"backing_device", "cache_device">>
      [] stype = "dasd" -> <<>>
      [] stype = "disk" -> <<>>
      [] stype = "dm_crypt" -> <<"volume">>
      [] stype = "format" -> <<"volume">>
      [] stype = "lvm_partition" -> <<"volgroup">>
      [] stype = "lvm_volgroup" -> <<"devices">>
      [] stype = "mount" -> <<"device">>
      [] stype = "partition" -> <<"device">>
      [] stype = "raid" -> <<"container", "devices", "spare_devices">>
      [] stype = "zfs" -> <<"pool">>
      [] stype = "zpool" -> <<"vdevs">>

\* _stype_to_order_key: the field that orders items of one type.
_stype_to_order_key(stype) ==
    CASE stype = "bcache" -> "name"
      [] stype = "dasd" -> "id"
      [] stype = "disk" -> "id"
      [] stype = "dm_crypt" -> "id"
      [] stype = "format" -> "id"
      [] stype = "lvm_partition" -> "name"
      [] stype = "lvm_volgroup" -> "name"
      [] stype = "mount" -> "path"
      [] stype = "partition" -> "number"
      [] stype = "raid" -> "id"
      [] stype = "zfs" -> "volume"
      [] stype = "zpool" -> "id"

\* The `depends` table of _validate_dep_type.
depends(stype) ==
    CASE stype = "bcache" ->
             {"bcache", "disk", "dm_crypt", "lvm_partition", "partition", "raid"}
      [] stype = "dasd" -> {}
      [] stype = "disk" -> {"dasd"}
      [] stype = "dm_crypt" ->
             {"bcache", "disk", "dm_crypt", "lvm_partition", "partition", "raid"}
      [] stype = "format" ->
             {"bcache", "disk", "dm_crypt", "lvm_partition", "partition", "raid"}
      [] stype = "lvm_partition" -> {"lvm_volgroup"}
      [] stype = "lvm_volgroup" ->
             {"bcache", "disk", "dm_crypt", "partition", "raid"}
      [] stype = "mount" -> {"format"}
      [] stype = "partition" -> {"bcache", "disk", "raid", "partition"}
      [] stype = "raid" ->
             {"bcache", "disk", "dm_crypt", "lvm_partition", "partition", "raid"}
      [] stype = "zfs" -> {"zpool"}
      [] stype = "zpool" -> {"disk", "partition"}

\* Every dependency field name of the registry.
DepFields ==
    {"backing_device", "cache_device", "volume", "volgroup", "devices",
     "device", "container", "spare_devices", "pool", "vdevs"}

(***************************************************************************)
(* Configurations: an OrderedDict id -> item, kept as the sequence of its  *)
(* items in insertion order (extract_storage_ordered_dict).                *)
(***************************************************************************)
Scalar(d) == [list |-> FALSE, v |-> <<d>>]
List(ds) == [list |-> TRUE, v |-> ds]

\* `dep_key in item_cfg`
HasField(item_cfg, k) == k \in DOMAIN item_cfg.f

Ids(config) == {config[i].id : i \in 1..Len(config)}

\* config.get(item_id) / config[item_id]
CfgGet(config, item_id) == config[CHOOSE i \in 1..Len(config) : config[i].id = item_id]

\* item_cfg[k] for an order-key field k: every item has 'id', and has the
\* order-key field of its own type; any other field raises KeyError.
HasKeyField(item_cfg, k) == k = "id" \/ k = _stype_to_order_key(item_cfg.type)
KeyField(item_cfg, k) == IF k = "id" THEN item_cfg.id ELSE item_cfg.key

(***************************************************************************)
(* Dependency graph resolver.                                              *)
(*                                                                         *)
(* The outcome of a call is a record [st, deps, edges, depth]:             *)
(*   st    "ok" (a list is returned), "None" (None is returned) or the     *)
(*         error raised: "InvalidDependency" and "ItemNotFound" are the    *)
(*         two ValueErrors of _validate_dep_type ("... cannot depend upon  *)
(*         on ..." and "Invalid dep_id ..."), "ValueError" is the one of   *)
(*         an empty config, "KeyError" a missing mapping key,              *)
(*         "RecursionError" python's recursion limit;                      *)
(*   deps  the list returned;                                              *)
(*   edges the dependency edges <<source id, field, target id>> the walk   *)
(*         has followed, depth the deepest nesting of calls on an item     *)
(*         (both are history, kept to state properties of the walk).       *)
(***************************************************************************)
Ok(deps, edges, depth) == [st |-> "ok", deps |-> deps, edges |-> edges, depth |-> depth]
Raise(kind, edges, depth) == [st |-> kind, deps |-> <<>>, edges |-> edges, depth |-> depth]
\* An absent id raising instead of returning None.
ReturnNoneRaises == Raise("ItemNotFound", {}, 0)

ReturnNone == [st |-> "None", deps |-> <<>>, edges |-> {}, depth |-> 0]

Max(a, b) == IF a >= b THEN a ELSE b

\* The permutations of 1..3: the orders in which python may iterate a set
\* of up to three dependency field names.
KeyPerms ==
    {<<1, 2, 3>>, <<1, 3, 2>>, <<2, 1, 3>>, <<2, 3, 1>>, <<3, 1, 2>>, <<3, 2, 1>>}

\* `for dep_key in _stype_to_deps(item_type)` under the iteration order kperm.
DepKeyOrder(stype, kperm) ==
    LET ks == _stype_to_deps(stype)
        px == SelectSeq(kperm, LAMBDA i : i <= Len(ks))
    IN  [j \in 1..Len(px) |-> ks[px[j]]]

\* _validate_dep_type without the type-pair check.
_validate_dep_type_lax(source_id, dep_key, dep_id, sconfig) ==
    IF source_id \notin Ids(sconfig) \/ dep_id \notin Ids(sconfig) THEN "ItemNotFound"
    ELSE "ok"

_validate_dep_type(source_id, dep_key, dep_id, sconfig) ==
    IF source_id \notin Ids(sconfig) THEN "ItemNotFound"
    ELSE IF dep_id \notin Ids(sconfig) THEN "ItemNotFound"
    ELSE LET source_type == CfgGet(sconfig, source_id).type
             dep_type == CfgGet(sconfig, dep_id).type
         IN  IF dep_type \in depends(source_type) THEN "ok" ELSE "InvalidDependency"

\* No search for the items with the same dependency.
_find_same_dep_none(dep_key, dep_value, config) == <<>>

\* The items, in config order, whose field dep_key equals the id dep_value.
_find_same_dep(dep_key, dep_value, config) ==
    SelectSeq(config, LAMBDA c : HasField(c, dep_key) /\ c.f[dep_key] = Scalar(dep_value))

RECURSIVE find_item_dependencies(_, _, _, _, _)
RECURSIVE DepLoop(_, _, _, _, _, _, _, _, _)
RECURSIVE DepKeyLoop(_, _, _, _, _, _, _, _)

\* `for dep in dep_value:` from position j on; acc is the outcome so far.
DepLoop(item_cfg, dep_key, dep_value, j, acc, config, validate, kperm, fuel) ==
    IF j > Len(dep_value) THEN acc
    ELSE
      LET dep == dep_value[j]
          edges == acc.edges \cup {<<item_cfg.id, dep_key, dep>>}
          valid == IF validate
                   THEN _validate_dep_type(item_cfg.id, dep_key, dep, config)
                   ELSE "ok"
          item_order == _stype_to_order_key(item_cfg.type)
          sdeps_cfgs == _find_same_dep(dep_key, dep, config)
      IN
      IF valid # "ok" THEN Raise(valid, edges, acc.depth)
      ELSE IF \E i \in 1..Len(sdeps_cfgs) : ~HasKeyField(sdeps_cfgs[i], item_order)
      THEN Raise("KeyError", edges, acc.depth)
      ELSE
        LET sorted_deps ==
                sorted(sdeps_cfgs,
                       [i \in 1..Len(sdeps_cfgs) |-> KeyField(sdeps_cfgs[i], item_order)])
            sdep_ids == [i \in 1..Len(sorted_deps) |-> sorted_deps[i].id]
            lower_deps == find_item_dependencies(dep, config, TRUE, kperm, fuel - 1)
            depth == Max(acc.depth, 1 + lower_deps.depth)
        IN
        IF lower_deps.st \notin {"ok", "None"}
        THEN Raise(lower_deps.st, edges \cup lower_deps.edges, depth)
        ELSE DepLoop(item_cfg, dep_key, dep_value, j + 1,
                     Ok(acc.deps \o sdep_ids \o lower_deps.deps,
                        edges \cup lower_deps.edges, depth),
                     config, validate, kperm, fuel)

\* `for dep_key in _stype_to_deps(item_type):` from position i of keys on.
DepKeyLoop(item_cfg, keys, i, acc, config, validate, kperm, fuel) ==
    IF i > Len(keys) THEN acc
    ELSE IF ~HasField(item_cfg, keys[i])
    THEN DepKeyLoop(item_cfg, keys, i + 1, acc, config, validate, kperm, fuel)
    ELSE
      LET dep_value == item_cfg.f[keys[i]].v
          r == DepLoop(item_cfg, keys[i], dep_value, 1,
                       Ok(acc.deps \o dep_value, acc.edges, acc.depth),
                       config, validate, kperm, fuel)
      IN  IF r.st # "ok" THEN r
          ELSE DepKeyLoop(item_cfg, keys, i + 1, r, config, validate, kperm, fuel)

\* fuel is the number of nested calls on items still allowed before python's
\* recursion limit.  The nested calls all validate, so a call nested deeper
\* than there are items repeats a call that is still running, with the same
\* arguments: the recursion never ends and only then RecursionError is raised.
find_item_dependencies(item_id, config, validate, kperm, fuel) ==
    IF config = <<>> THEN Raise("ValueError", {}, 0)
    ELSE IF item_id \notin Ids(config) THEN ReturnNone
    ELSE IF fuel = 0 THEN Raise("RecursionError", {}, 0)
    ELSE LET item_cfg == CfgGet(config, item_id)
         IN  DepKeyLoop(item_cfg, DepKeyOrder(item_cfg.type, kperm), 1,
                        Ok(<<>>, {}, 1), config, validate, kperm, fuel)

\* A limit of two nested calls.
RecursionLimit_two(config) == 2

RecursionLimit(config) == Len(config) + 1

(***************************************************************************)
(* Tree builder and merger.  A tree is the sequence of the items of the    *)
(* OrderedDict, in key order; the key of an entry is the item's id.        *)
(***************************************************************************)
\* The tree with the dependencies inserted first and the item after them.
get_config_tree_deps_first(item, sconfig, kperm) ==
    IF sconfig = <<>> THEN [st |-> "ValueError", tree |-> <<>>]
    ELSE IF item \notin Ids(sconfig) THEN [st |-> "KeyError", tree |-> <<>>]
    ELSE LET r == find_item_dependencies(item, sconfig, TRUE, kperm,
                                         RecursionLimit(sconfig))
             keys == Uniq(r.deps \o <<item>>, <<>>)
         IN  IF r.st # "ok" THEN [st |-> r.st, tree |-> <<>>]
             ELSE IF \E d \in Range(r.deps) : d \notin Ids(sconfig)
             THEN [st |-> "KeyError", tree |-> <<>>]
             ELSE [st |-> "ok",
                   tree |-> [i \in 1..Len(keys) |-> CfgGet(sconfig, keys[i])]]

\* The outcome is [st, tree]: st as above, tree the OrderedDict returned.
get_config_tree(item, sconfig, kperm) ==
    IF sconfig = <<>> THEN [st |-> "ValueError", tree |-> <<>>]
    ELSE IF item \notin Ids(sconfig) THEN [st |-> "KeyError", tree |-> <<>>]
    ELSE LET r == find_item_dependencies(item, sconfig, TRUE, kperm,
                                         RecursionLimit(sconfig))
             keys == Uniq(<<item>> \o r.deps, <<>>)
         IN  IF r.st # "ok" THEN [st |-> r.st, tree |-> <<>>]
             ELSE IF \E d \in Range(r.deps) : d \notin Ids(sconfig)
             THEN [st |-> "KeyError", tree |-> <<>>]
             ELSE [st |-> "ok",
                   tree |-> [i \in 1..Len(keys) |-> CfgGet(sconfig, keys[i])]]

\* The registry built by the first loop of merge_config_trees_to_list: the
\* sequence, in insertion order, of [id, level, config], and max_level.
\* The registry loop without the duplicate check: a later tree overwrites
\* the level and the payload registered for its top id.
RECURSIVE RegLoopOverwrite(_, _, _)
RegLoopOverwrite(config_trees, reg, max_level) ==
    IF config_trees = <<>> THEN [reg |-> reg, max_level |-> max_level]
    ELSE LET tree == Head(config_trees)
             level == Len(tree)
             max1 == IF level > max_level THEN level ELSE max_level
             entry == [id |-> tree[1].id, level |-> level, config |-> tree[1]]
         IN  IF \E i \in 1..Len(reg) : reg[i].id = entry.id
             THEN RegLoopOverwrite(Tail(config_trees),
                                   [i \in 1..Len(reg) |->
                                       IF reg[i].id = entry.id THEN entry ELSE reg[i]],
                                   max1)
             ELSE RegLoopOverwrite(Tail(config_trees), Append(reg, entry), max1)

RECURSIVE RegLoop(_, _, _)
RegLoop(config_trees, reg, max_level) ==
    IF config_trees = <<>> THEN [reg |-> reg, max_level |-> max_level]
    ELSE LET tree == Head(config_trees)
             top_item_id == tree[1].id
             level == Len(tree)
             max1 == IF level > max_level THEN level ELSE max_level
         IN  IF \E i \in 1..Len(reg) : reg[i].id = top_item_id
             THEN RegLoop(Tail(config_trees), reg, max1)
             ELSE RegLoop(Tail(config_trees),
                          Append(reg, [id |-> top_item_id, level |-> level,
                                       config |-> tree[1]]),
                          max1)

\* sort_level: group by type, types in alphabetical order, each group
\* sorted by the order key of its type.
\* sreg is the set of the types of configs (the keys of the dict sreg).
RECURSIVE SortTypes(_, _, _)
SortTypes(configs, sreg, t) ==
    IF t > Len(STORAGE_CONFIG_TYPES) THEN <<>>
    ELSE IF STORAGE_CONFIG_TYPES[t] \notin sreg THEN SortTypes(configs, sreg, t + 1)
    ELSE LET group == SelectSeq(configs, LAMBDA c : c.type = STORAGE_CONFIG_TYPES[t])
             iorder == _stype_to_order_key(STORAGE_CONFIG_TYPES[t])
         IN  sorted(group, [i \in 1..Len(group) |-> KeyField(group[i], iorder)])
             \o SortTypes(configs, sreg, t + 1)

\* The configs of a level left in the order of the registry.
sort_level_unsorted(configs) == configs

sort_level(configs) ==
    IF configs = <<>> THEN <<>>
    ELSE SortTypes(configs, {configs[i].type : i \in 1..Len(configs)}, 1)

RECURSIVE MergeLevels(_, _, _)
MergeLevels(reg, lvl, max_level) ==
    IF lvl > max_level THEN <<>>
    ELSE LET entries == SelectSeq(reg, LAMBDA e : e.level = lvl)
             level_configs == [i \in 1..Len(entries) |-> entries[i].config]
         IN  sort_level(level_configs) \o MergeLevels(reg, lvl + 1, max_level)

\* The levels merged from the highest down.
RECURSIVE MergeLevelsDown(_, _)
MergeLevelsDown(reg, lvl) ==
    IF lvl < 0 THEN <<>>
    ELSE LET entries == SelectSeq(reg, LAMBDA e : e.level = lvl)
             level_configs == [i \in 1..Len(entries) |-> entries[i].config]
         IN  sort_level(level_configs) \o MergeLevelsDown(reg, lvl - 1)

merge_config_trees_to_list_down(config_trees) ==
    LET r == RegLoop(config_trees, <<>>, 0)
    IN  MergeLevelsDown(r.reg, r.max_level)

\* `range(max_level)` for `range(max_level + 1)`: the top level is left out.
merge_config_trees_to_list_short(config_trees) ==
    LET r == RegLoop(config_trees, <<>>, 0)
    IN  MergeLevels(r.reg, 0, r.max_level - 1)

merge_config_trees_to_list(config_trees) ==
    LET r == RegLoop(config_trees, <<>>, 0)
    IN  MergeLevels(r.reg, 0, r.max_level)

(***************************************************************************)
(* The configurations explored.                                            *)
(*                                                                         *)
(* Items carry the order-key field of their type (the probe normalizers    *)
(* set number, path and name) and nothing else besides id, type and their  *)
(* dependency fields.  A configuration of n items is built slot by slot:   *)
(* the item of a slot references items of lower slots only, so the         *)
(* references are acyclic.  Ids, order keys and the definition order are   *)
(* each ascending or descending in the slot number (order keys may also    *)
(* all tie), so that no two of dependency order, id order, key order and   *)
(* definition order agree by construction.                                 *)
(***************************************************************************)
Disk(id) == [id |-> id, type |-> "disk", key |-> id, f |-> <<>>]
Partition(id, number, device) ==
    [id |-> id, type |-> "partition", key |-> number,
     f |-> [k \in {"device"} |-> Scalar(device)]]
Format(id, volume) ==
    [id |-> id, type |-> "format", key |-> id,
     f |-> [k \in {"volume"} |-> Scalar(volume)]]
Mount(id, path, device) ==
    [id |-> id, type |-> "mount", key |-> path,
     f |-> [k \in {"device"} |-> Scalar(device)]]
Bcache(id, name, backing_device, cache_device) ==
    [id |-> id, type |-> "bcache", key |-> name,
     f |-> [k \in {"backing_device", "cache_device"} |->
               IF k = "backing_device" THEN Scalar(backing_device)
               ELSE Scalar(cache_device)]]
Raid(id, devices) ==
    [id |-> id, type |-> "raid", key |-> id,
     f |-> [k \in {"devices"} |-> List(devices)]]

Modes == [ids : {"asc", "desc"}, keys : {"asc", "desc", "tie"}, order : {"asc", "desc"}]

SlotVal(mode, n, s) ==
    CASE mode = "asc" -> s
      [] mode = "desc" -> n + 1 - s
      [] mode = "tie" -> 1

\* The ascending sequence of the elements of a set of naturals below n.
RECURSIVE AscSeq(_, _, _)
AscSeq(S, i, n) ==
    IF i > n THEN <<>>
    ELSE (IF i \in S THEN <<i>> ELSE <<>>) \o AscSeq(S, i + 1, n)

\* The items a slot s of an n-item configuration may hold.
SlotItems(m, n, s) ==
    LET id == SlotVal(m.ids, n, s)
        key == SlotVal(m.keys, n, s)
        lower == {SlotVal(m.ids, n, t) : t \in 1..(s - 1)}
    IN  {Disk(id)}
        \cup {Partition(id, key, d) : d \in lower}
        \cup {Format(id, d) : d \in lower}
        \cup {Mount(id, key, d) : d \in lower}
        \cup {Bcache(id, key, b, c) : b \in lower, c \in lower}
        \cup {Raid(id, AscSeq(D, 1, n)) : D \in (SUBSET lower) \ {{}}}

RECURSIVE SlotConfigs(_, _, _)
SlotConfigs(m, n, s) ==
    IF s = 0 THEN {<<>>}
    ELSE {Append(c, it) : c \in SlotConfigs(m, n, s - 1), it \in SlotItems(m, n, s)}

GenConfigs ==
    UNION {{IF m.order = "asc" THEN c ELSE Reverse(c) : c \in SlotConfigs(m, n, n)} :
              m \in Modes, n \in 1..MaxItems}

\* The same configurations with one item left out: a dependency field may
\* then name an id that the configuration does not hold.
RemoveAt(s, i) == [j \in 1..(Len(s) - 1) |-> IF j < i THEN s[j] ELSE s[j + 1]]

AllAsc == [ids |-> "asc", keys |-> "asc", order |-> "asc"]

DanglingConfigs ==
    UNION {{RemoveAt(c, i) : c \in SlotConfigs(AllAsc, n, n), i \in 1..n} :
              n \in 2..MaxItems}

\* Configurations whose references form a cycle.
CyclicConfigs ==
    {<<Partition(1, 1, 1)>>,
     <<Partition(1, 1, 2), Partition(2, 2, 1)>>,
     <<Disk(1), Raid(2, <<1, 3>>), Partition(3, 1, 2)>>}

\* The raid-on-partitions example: disk sda; partitions sda1, sda2 on sda;
\* raid md0 on sda1 and sda2; format fmt of md0; mount m of fmt.  The ids
\* are numbered in the order of the names: fmt 1, m 2, md0 3, sda 4,
\* sda1 5, sda2 6.
RaidExample ==
    <<Disk(4), Partition(5, 1, 4), Partition(6, 2, 4), Raid(3, <<5, 6>>),
      Format(1, 3), Mount(2, 1, 1)>>

RaidExampleConfigs ==
    {[i \in 1..Len(RaidExample) |-> RaidExample[p[i]]] :
        p \in Permutations(1..Len(RaidExample))}

\* Two bcache devices sharing one cache device, the second stacked on the
\* first: disks 1 and 2, bcache 3 (name 2) backed by 1 with cache 2,
\* bcache 4 (name 1) backed by 3 with cache 2.
StackedBcacheExample ==
    <<Disk(1), Disk(2), Bcache(3, 2, 1, 2), Bcache(4, 1, 3, 2)>>

Configs ==
    GenConfigs \cup DanglingConfigs \cup CyclicConfigs \cup RaidExampleConfigs
    \cup {StackedBcacheExample}

\* The iteration orders of the dependency-field sets that can make a
\* difference on a configuration: those of the fields its items hold.
KeyPermsOf(cfg) ==
    IF \E i \in 1..Len(cfg) : cfg[i].type = "bcache"
    THEN {<<1, 2, 3>>, <<2, 1, 3>>}
    ELSE {<<1, 2, 3>>}

(***************************************************************************)
(* State.                                                                  *)
(***************************************************************************)
VARIABLES
    config,    \* the storage configuration (sequence of items)
    last,      \* the last single call on the configuration and its outcome
    trees,     \* extract_storage_config: ctrees, or NotRun
    merged,    \* extract_storage_config: the merged list, or an error
    remerged,  \* a further merge_config_trees_to_list call and its outcome
    table,     \* the partition table: [label, sector_bytes, entries, extended]
    added,     \* the actions whose add returned an entry, in order
    calls,     \* the number of add calls made on the table
    res,       \* the last add call: [action, st, entry]
    disk,      \* a disk_handler_v2 call: its arguments, the disk and its outcome
    md         \* an mdadm call: its arguments, the array and its outcome

rvars == <<config, last, trees, merged, remerged>>
tvars == <<table, added, calls, res>>
dvars == <<disk, md>>
vars == <<config, last, trees, merged, remerged, table, added, calls, res, disk, md>>

NoCall == [fn |-> "none"]
NotRun == [st |-> "notrun"]

NoTable == [label |-> "none"]

Init ==
    /\ config \in Configs
    /\ last = NoCall
    /\ trees = NotRun
    /\ merged = NotRun
    /\ remerged = NotRun
    /\ table = NoTable
    /\ added = <<>>
    /\ calls = 0
    /\ res = NoCall
    /\ disk = NotRun
    /\ md = NotRun

\* The configuration sorted by id, in place.
StorageConfigAfter_sorted(storage_config) ==
    sorted(storage_config, [i \in 1..Len(storage_config) |-> storage_config[i].id])

\* The configuration after a call of the resolver or of the merger: the
\* calls build new lists and dicts (deps = [], OrderedDict(...), reg = {},
\* sorted(...)) and assign to none of the items they are given nor to the
\* configuration.
StorageConfigAfter(storage_config) == storage_config

\* A caller asks for the dependencies of an id (present or not).
FindItemDependencies(item_id, validate) ==
    /\ trees = NotRun
    /\ last = NoCall
    /\ \E kperm \in KeyPermsOf(config) :
          last' = [fn |-> "find_item_dependencies", item_id |-> item_id,
                   validate |-> validate,
                   res |-> find_item_dependencies(item_id, config, validate, kperm,
                                                  RecursionLimit(config))]
    /\ config' = StorageConfigAfter(config)
    /\ UNCHANGED <<trees, merged, remerged, tvars, dvars>>

\* A caller asks for the tree of an id.
GetConfigTree(item) ==
    /\ trees = NotRun
    /\ last = NoCall
    /\ \E kperm \in KeyPermsOf(config) :
          last' = [fn |-> "get_config_tree", item |-> item,
                   res |-> get_config_tree(item, config, kperm)]
    /\ config' = StorageConfigAfter(config)
    /\ UNCHANGED <<trees, merged, remerged, tvars, dvars>>

\* extract_storage_config, from "Generating storage config dependencies"
\* on: one tree per item in configuration order, then the merge.
ExtractStorageConfig ==
    /\ trees = NotRun
    /\ \E kperm \in KeyPermsOf(config) :
          LET rs == [i \in 1..Len(config) |-> get_config_tree(config[i].id, config, kperm)]
              bad == {i \in 1..Len(rs) : rs[i].st # "ok"}
              ctrees == [i \in 1..Len(rs) |-> rs[i].tree]
          IN  IF bad # {}
              THEN /\ trees' = [st |-> rs[CHOOSE i \in bad : \A j \in bad : i <= j].st]
                   /\ merged' = trees'
              ELSE /\ trees' = [st |-> "ok", ctrees |-> ctrees]
                   /\ merged' = [st |-> "ok", list |-> merge_config_trees_to_list(ctrees)]
    /\ last' = NoCall
    /\ config' = StorageConfigAfter(config)
    /\ UNCHANGED <<remerged, tvars, dvars>>

\* The top entry of each tree alone: trees with the tops of ts and level 1.
Tops(ts) == [i \in 1..Len(ts) |-> <<ts[i][1]>>]

\* A caller merges the trees again, each top id now occurring twice: the
\* trees followed by a second copy of them ("twice") or by the one-entry
\* trees of their tops ("tops").
MergeAgain(how) ==
    /\ trees # NotRun
    /\ trees.st = "ok"
    /\ remerged = NotRun
    /\ LET input == IF how = "twice" THEN trees.ctrees \o trees.ctrees
                    ELSE trees.ctrees \o Tops(trees.ctrees)
       IN  remerged' = [how |-> how,
                        reg |-> RegLoop(input, <<>>, 0).reg,
                        list |-> merge_config_trees_to_list(input)]
    /\ config' = StorageConfigAfter(config)
    /\ UNCHANGED <<last, trees, merged, tvars, dvars>>

\* The single calls of the resolver, on the ids of the configuration and
\* on 0, an id that no configuration holds (ids are positive).
NextResolve ==
    \/ \E item_id \in Ids(config) \cup {0}, validate \in BOOLEAN :
          FindItemDependencies(item_id, validate)
    \/ \E item \in Ids(config) \cup {0} : GetConfigTree(item)

SpecResolve == Init /\ [][NextResolve]_vars

\* Building one tree per item and merging.
NextMerge ==
    \/ ExtractStorageConfig
    \/ \E how \in {"twice", "tops"} : MergeAgain(how)

SpecMerge == Init /\ [][NextMerge]_vars

(***************************************************************************)
(* Properties of the resolver and of the merger.                           *)
(***************************************************************************)
\* The ids an item references through the dependency fields of its type.
DirectDeps(cfg, id) ==
    LET item == CfgGet(cfg, id)
    IN  UNION {Range(item.f[k].v) :
                  k \in DOMAIN item.f \cap Range(_stype_to_deps(item.type))}

\* The ids reachable from the ids of S by following dependency fields.
RECURSIVE Reach(_, _)
Reach(cfg, S) ==
    LET T == S \cup UNION {DirectDeps(cfg, id) : id \in S \cap Ids(cfg)}
    IN  IF T = S THEN S ELSE Reach(cfg, T)

\* The transitive dependency closure of an item.
Closure(cfg, id) == Reach(cfg, DirectDeps(cfg, id))

\* The positions of an id in a list of items.
Positions(list, id) == {i \in 1..Len(list) : list[i].id = id}

Before(list, a, b) ==
    \E i \in Positions(list, a) : \E j \in Positions(list, b) : i < j

Merged == merged # NotRun /\ merged.st = "ok"

\* C1: when one tree per item was built and the trees were merged, every
\* item B in the transitive dependency closure of an item A (B # A) is at a
\* strictly smaller index than A in the merged list.
C1_DependenciesFirst ==
    Merged =>
        \A a \in Ids(config) : \A b \in Closure(config, a) \ {a} :
            Before(merged.list, b, a)

\* C2: the list merged from one tree per item holds each configuration
\* item exactly once: none is missing, none occurs twice.
C2_EachItemOnce ==
    Merged =>
        /\ Len(merged.list) = Len(config)
        /\ \A i \in 1..Len(config) :
              /\ Cardinality(Positions(merged.list, config[i].id)) = 1
              /\ \E j \in 1..Len(merged.list) : merged.list[j] = config[i]

C2_Witness ==
    /\ Merged
    /\ Len(merged.list) = MaxItems
    /\ \E i \in 1..Len(trees.ctrees) : Len(trees.ctrees[i]) = MaxItems

\* C3: merging the trees followed by trees with the same top ids (a second
\* copy of them, or other trees with these tops) returns the list of merging
\* them once, and registers for every top id the level and the payload it
\* registered in the first place.
C3_DuplicateTopsSkipped ==
    remerged # NotRun =>
        /\ remerged.list = merged.list
        /\ remerged.reg =
              [i \in 1..Len(trees.ctrees) |->
                  [id |-> trees.ctrees[i][1].id, level |-> Len(trees.ctrees[i]),
                   config |-> trees.ctrees[i][1]]]

C3_Witness ==
    /\ remerged # NotRun
    /\ remerged.how = "twice"
    /\ Len(remerged.list) = MaxItems
    /\ \E i \in 1..Len(remerged.reg) : remerged.reg[i].level > 1

\* A dependency edge whose target is held by the configuration and has a
\* type that the type of the source may not depend on.
BadEdge(cfg, e) ==
    /\ e[1] \in Ids(cfg)
    /\ e[3] \in Ids(cfg)
    /\ CfgGet(cfg, e[3]).type \notin depends(CfgGet(cfg, e[1]).type)

\* Every dependency edge of the item and of the items it reaches.
ClosureEdges(cfg, id) ==
    UNION {UNION {{<<s, k, d>> : d \in Range(CfgGet(cfg, s).f[k].v)} :
                     k \in DOMAIN CfgGet(cfg, s).f
                           \cap Range(_stype_to_deps(CfgGet(cfg, s).type))} :
              s \in Reach(cfg, {id}) \cap Ids(cfg)}

ValidatingCall == last.fn = "find_item_dependencies" /\ last.validate

\* C4: find_item_dependencies with validation fails with InvalidDependency
\* whenever an edge it has followed has a target of a type the source type
\* may not depend on, and it returns a list only when every dependency edge
\* of the item and of its closure is an allowed type pair.
C4_InvalidDependencyRaised ==
    ValidatingCall =>
        /\ (\E e \in last.res.edges : BadEdge(config, e))
              => last.res.st = "InvalidDependency"
        /\ last.res.st = "ok" =>
              /\ last.res.edges = ClosureEdges(config, last.item_id)
              /\ \A e \in ClosureEdges(config, last.item_id) : ~BadEdge(config, e)

\* A mount whose device is a disk is refused.
C4_Witness ==
    /\ ValidatingCall
    /\ last.res.st = "InvalidDependency"
    /\ \E e \in last.res.edges :
          /\ e[1] = last.item_id
          /\ e[2] = "device"
          /\ CfgGet(config, e[1]).type = "mount"
          /\ e[3] \in Ids(config)
          /\ CfgGet(config, e[3]).type = "disk"

AbsentCall ==
    /\ last.fn = "find_item_dependencies"
    /\ config # <<>>
    /\ last.item_id \notin Ids(config)

\* C5 as stated: find_item_dependencies on an id that the (non-empty)
\* configuration does not hold fails with ItemNotFound.
C5_AbsentIdRaises == AbsentCall => last.res.st = "ItemNotFound"

\* C5: find_item_dependencies on an id that the (non-empty) configuration
\* does not hold raises nothing and returns None, no list of dependencies.
C5_AbsentIdReturnsNone ==
    AbsentCall => last.res.st = "None" /\ last.res.deps = <<>>

C5_Witness ==
    /\ AbsentCall
    /\ Len(config) > 1
    /\ last.validate
    /\ last.res.st = "None"

IsRaidExample == Len(config) = Len(RaidExample) /\ Range(config) = Range(RaidExample)

\* C6: for the raid-on-partitions example in any definition order, the
\* merged list has sda (4) before sda1 (5) and sda2 (6), both partitions
\* before md0 (3), md0 before fmt (1) and fmt before m (2).
C6_RaidExampleOrder ==
    (IsRaidExample /\ merged # NotRun) =>
        /\ merged.st = "ok"
        /\ Before(merged.list, 4, 5)
        /\ Before(merged.list, 4, 6)
        /\ Before(merged.list, 5, 3)
        /\ Before(merged.list, 6, 3)
        /\ Before(merged.list, 3, 1)
        /\ Before(merged.list, 1, 2)

\* The example with the mount defined first and the disk last.
C6_Witness ==
    /\ IsRaidExample
    /\ config[1].type = "mount"
    /\ config[Len(config)].type = "disk"
    /\ Merged
    /\ Len(merged.list) = Len(RaidExample)

(***************************************************************************)
(* Partition table layout engine.                                          *)
(*                                                                         *)
(* A partition action is a function from the names of the fields it holds  *)
(* to their values: flag, size (bytes), and optionally number, offset      *)
(* (bytes) and uuid.  A table is [label, sector_bytes, entries, extended]; *)
(* extended is the position in entries of the entry held in _extended, 0   *)
(* when _extended is None.                                                 *)
(***************************************************************************)
ONE_MIB_BYTES == 1048576

\* a & ~b on non-negative integers, bit by bit.
RECURSIVE BitAndNot(_, _)
BitAndNot(a, b) ==
    IF a = 0 THEN 0
    ELSE 2 * BitAndNot(a \div 2, b \div 2)
         + (IF a % 2 = 1 /\ b % 2 = 0 THEN 1 ELSE 0)

\* Rounding down: the block size is not added before the low bits are cleared.
align_up_down(size, block_size) == BitAndNot(size, block_size - 1)

align_up(size, block_size) == BitAndNot(size + block_size - 1, block_size - 1)

\* action.get(k, default)
Get(action, k, default) == IF k \in DOMAIN action THEN action[k] ELSE default

FLAG_TO_GUID(flag) ==
    CASE flag = "boot" -> "C12A7328-F81F-11D2-BA4B-00A0C93EC93B"
      [] flag = "bios_grub" -> "21686148-6449-6E6F-744E-656564454649"
      [] flag = "home" -> "933AC7E1-2EB4-4F13-B844-0E14E2AEF915"
      [] flag = "linux" -> "0FC63DAF-8483-4772-8E79-3D69D8477DE4"
      [] flag = "lvm" -> "E6D6D379-F507-44C2-A23C-238F2A3DF928"
      [] flag = "mbr" -> "024DEE41-33E7-11D3-9D69-0008C781F39F"
      [] flag = "prep" -> "9E1A2D38-C612-4316-AA26-8B49521E5A8B"
      [] flag = "raid" -> "A19D880F-05FC-4D3B-A006-743F0F84911E"
      [] flag = "swap" -> "0657FD6D-A4AB-43C4-84E5-0933C84B4F4F"
      [] OTHER -> "None"

FLAG_TO_MBR_TYPE(flag) ==
    CASE flag = "boot" -> "EF"
      [] flag = "bios_grub" -> "EF"
      [] flag = "home" -> "83"
      [] flag = "linux" -> "83"
      [] flag = "lvm" -> "8E"
      [] flag = "mbr" -> ""
      [] flag = "prep" -> "42"
      [] flag = "raid" -> "FD"
      [] flag = "swap" -> "82"
      [] flag = "extended" -> "05"
      [] OTHER -> "None"

PartTableEntry(number, start, size, type, uuid, bootable) ==
    [number |-> number, start |-> start, size |-> size, type |-> type,
     uuid |-> uuid, bootable |-> bootable]

\* SFDiskPartTable.__init__: the table, or "Exception" when the sector size
\* does not divide one mebibyte.
SFDiskPartTable(label, sector_bytes) ==
    IF ONE_MIB_BYTES % sector_bytes # 0 THEN [label |-> "Exception"]
    ELSE [label |-> label, sector_bytes |-> sector_bytes, entries |-> <<>>,
          extended |-> 0]

\* One mebibyte in bytes where sectors are meant.
one_mib_sectors_bytes(self) == ONE_MIB_BYTES

one_mib_sectors(self) == ONE_MIB_BYTES \div self.sector_bytes

\* amount is a byte count, which util.human2bytes returns as it is.
bytes2sectors(self, amount) == amount \div self.sector_bytes

sectors2bytes(self, amount) == amount * self.sector_bytes

\* The outcome of add: [st, entry, table]; table is the table after the call.
AddOk(self, entry, extended) ==
    [st |-> "ok", entry |-> entry,
     table |-> [self EXCEPT !.entries = Append(self.entries, entry),
                            !.extended = extended]]
\* A failing add forgets the extended entry.
AddRaise_forgets(self, kind) == [st |-> kind, table |-> [self EXCEPT !.extended = 0]]

AddRaise(self, kind) == [st |-> kind, table |-> self]

GPTPartTable_add(self, action) ==
    LET number == Get(action, "number", Len(self.entries) + 1)
        prev == self.entries[Len(self.entries)]
        start == IF "offset" \in DOMAIN action
                 THEN bytes2sectors(self, action["offset"])
                 ELSE IF self.entries # <<>>
                 THEN align_up(prev.start + prev.size, one_mib_sectors(self))
                 ELSE one_mib_sectors(self)
        size == bytes2sectors(self, action["size"])
        uuid == Get(action, "uuid", "None")
        type == FLAG_TO_GUID(Get(action, "flag", "None"))
    IN  AddOk(self, PartTableEntry(number, start, size, type, uuid, "False"),
              self.extended)

\* The last entry with number > 4 (`for entry in reversed(self.entries)`),
\* 0 when there is none.
LastLogical(entries) ==
    LET S == {i \in 1..Len(entries) : entries[i].number > 4}
    IN  IF S = {} THEN 0 ELSE CHOOSE i \in S : \A j \in S : j <= i

\* The entry before the new one, whatever its number.
LastPrimary_any(entries) == Len(entries)

\* The last entry with number <= 4 (`for entry in self.entries`), 0 when
\* there is none.
LastPrimary(entries) ==
    LET S == {i \in 1..Len(entries) : entries[i].number <= 4}
    IN  IF S = {} THEN 0 ELSE CHOOSE i \in S : \A j \in S : j <= i

\* The number of a logical partition taken from the action when it has one.
LogicalNumber_given(self, action) ==
    LET p == LastLogical(self.entries)
    IN  Get(action, "number", IF p = 0 THEN 5 ELSE self.entries[p].number + 1)

\* The number of a logical partition: 5 for the first, the number of the
\* last logical entry plus one after that; the action's number is not read.
LogicalNumber(self, action) ==
    LET p == LastLogical(self.entries)
    IN  IF p = 0 THEN 5 ELSE self.entries[p].number + 1

\* Five primaries let through.
TooManyPrimaries_five(number) == number > 5

\* `if number > 4: raise Exception("primary partition cannot have number")`
TooManyPrimaries(number) == number > 4

DOSPartTable_add(self, action) ==
    LET flag == Get(action, "flag", "None")
        given == "offset" \in DOMAIN action
        offset == bytes2sectors(self, action["offset"])
        size == bytes2sectors(self, action["size"])
        type == FLAG_TO_MBR_TYPE(flag)
        bootable == IF flag = "boot" THEN "True" ELSE "None"
        mib == one_mib_sectors(self)
    IN
    IF flag = "logical"
    THEN IF self.extended = 0 THEN AddRaise(self, "MissingExtendedPartition")
         ELSE LET p == LastLogical(self.entries)
                  prev == self.entries[p]
                  ext == self.entries[self.extended]
                  number == LogicalNumber(self, action)
                  start == IF given THEN offset
                           ELSE IF p = 0 THEN align_up(ext.start + mib, mib)
                           ELSE align_up(prev.start + prev.size + mib, mib)
              IN  AddOk(self, PartTableEntry(number, start, size, type, "None", bootable),
                        self.extended)
    ELSE LET number == Get(action, "number", Len(self.entries) + 1)
             p == LastPrimary(self.entries)
             prev == self.entries[p]
             start == IF given THEN offset
                      ELSE IF p = 0 THEN mib
                      ELSE align_up(prev.start + prev.size, mib)
         IN  IF TooManyPrimaries(number) THEN AddRaise(self, "TooManyPrimaries")
             ELSE AddOk(self, PartTableEntry(number, start, size, type, "None", bootable),
                        IF flag = "extended" THEN Len(self.entries) + 1
                        ELSE self.extended)

(***************************************************************************)
(* The calls explored on a table.                                          *)
(***************************************************************************)
\* Any action may be added in the first MaxAdds calls; as long as only
\* plain actions (flag and size, nothing else) were added, calls go on up
\* to MaxPlainAdds.
MaxAdds == 3
MaxPlainAdds == 6

\* 512 and 4096 divide one mebibyte, 520 does not.
SectorSizes == {512, 4096, 520}

Half == ONE_MIB_BYTES \div 2

Act(flag, size) == [flag |-> flag, size |-> size]
With(action, k, v) == (k :> v) @@ action

PlainFlags == {"primary", "extended", "logical", "linux"}
Plain(action) == DOMAIN action = {"flag", "size"} /\ action.flag \in PlainFlags

\* Sizes: one mebibyte, one and a half, and 1000 bytes (less than two
\* sectors of 512 bytes, less than one sector of 4096).
GPTActions ==
    {Act("linux", sz) : sz \in {ONE_MIB_BYTES, ONE_MIB_BYTES + Half, 1000}}
    \cup {With(Act("linux", sz), "offset", 3 * ONE_MIB_BYTES + 1000) :
             sz \in {ONE_MIB_BYTES, 1000}}
    \cup {With(Act("linux", ONE_MIB_BYTES), "number", 7),
          With(Act("boot", ONE_MIB_BYTES), "uuid", "u1"),
          [size |-> ONE_MIB_BYTES]}

DOSActions ==
    {Act(flag, sz) : flag \in {"primary", "extended", "logical"},
                     sz \in {ONE_MIB_BYTES, ONE_MIB_BYTES + Half}}
    \cup {With(Act(flag, ONE_MIB_BYTES), "number", n) :
             flag \in {"primary", "extended", "logical"}, n \in {2, 5}}
    \cup {With(Act(flag, ONE_MIB_BYTES), "offset", 3 * ONE_MIB_BYTES + 1000) :
             flag \in {"primary", "logical"}}
    \cup {Act("boot", ONE_MIB_BYTES), [size |-> ONE_MIB_BYTES]}

InitTable ==
    /\ config = <<>>
    /\ last = NoCall
    /\ trees = NotRun
    /\ merged = NotRun
    /\ remerged = NotRun
    /\ table = NoTable
    /\ added = <<>>
    /\ calls = 0
    /\ res = NoCall
    /\ disk = NotRun
    /\ md = NotRun

\* table_cls(sector_size)
NewTable(label, sector_bytes) ==
    /\ table = NoTable
    /\ table' = SFDiskPartTable(label, sector_bytes)
    /\ UNCHANGED <<rvars, added, calls, res, dvars>>

CanAdd(action) ==
    \/ calls < MaxAdds
    \/ /\ calls < MaxPlainAdds
       /\ Plain(action)
       /\ \A i \in 1..Len(added) : Plain(added[i])

\* table.add(action)
Add(label, action) ==
    /\ table.label = label
    /\ CanAdd(action)
    /\ LET r == IF label = "gpt" THEN GPTPartTable_add(table, action)
                ELSE DOSPartTable_add(table, action)
       IN  /\ table' = r.table
           /\ added' = IF r.st = "ok" THEN Append(added, action) ELSE added
           /\ res' = IF r.st = "ok"
                     THEN [action |-> action, st |-> "ok", entry |-> r.entry]
                     ELSE [action |-> action, st |-> r.st]
    /\ calls' = calls + 1
    /\ UNCHANGED <<rvars, dvars>>

NextGPT ==
    \/ \E sector_bytes \in SectorSizes : NewTable("gpt", sector_bytes)
    \/ \E action \in GPTActions : Add("gpt", action)

SpecGPT == InitTable /\ [][NextGPT]_vars

NextDOS ==
    \/ \E sector_bytes \in SectorSizes : NewTable("dos", sector_bytes)
    \/ \E action \in DOSActions : Add("dos", action)

SpecDOS == InitTable /\ [][NextDOS]_vars

\* Tables of both flavors.
NextTable == NextGPT \/ NextDOS

SpecTable == InitTable /\ [][NextTable]_vars

(***************************************************************************)
(* Properties of the partition tables.                                     *)
(***************************************************************************)
IsGPT == table.label = "gpt"
IsDOS == table.label = "dos"

Flag(action) == Get(action, "flag", "None")

\* One mebibyte in sectors of the table.
Mib == ONE_MIB_BYTES \div table.sector_bytes

End(entry) == entry.start + entry.size

NoOffsets == \A i \in 1..Len(added) : "offset" \notin DOMAIN added[i]

Aligned(n) == n % Mib = 0

\* C7 as stated: in a GPT table filled without explicit offsets the starts
\* are strictly increasing, each a multiple of one mebibyte in sectors, and
\* each entry ends at or before the start of the next.
C7_GPTStartsStrictlyIncrease ==
    (IsGPT /\ NoOffsets) =>
        /\ \A i \in 1..Len(table.entries) : Aligned(table.entries[i].start)
        /\ \A i \in 1..(Len(table.entries) - 1) :
              /\ table.entries[i].start < table.entries[i + 1].start
              /\ End(table.entries[i]) <= table.entries[i + 1].start

\* C7: in a GPT table filled without explicit offsets the starts never
\* decrease, and increase after every entry of at least one sector; each
\* start is a multiple of one mebibyte in sectors, and each entry ends at or
\* before the start of the next.
C7_GPTStartsIncrease ==
    (IsGPT /\ NoOffsets) =>
        /\ \A i \in 1..Len(table.entries) : Aligned(table.entries[i].start)
        /\ \A i \in 1..(Len(table.entries) - 1) :
              /\ table.entries[i].start <= table.entries[i + 1].start
              /\ table.entries[i].size > 0
                    => table.entries[i].start < table.entries[i + 1].start
              /\ End(table.entries[i]) <= table.entries[i + 1].start

\* An entry that ends off a mebibyte boundary is followed by another, and
\* so is an entry of no sector.
C7_Witness ==
    /\ IsGPT
    /\ NoOffsets
    /\ \E i \in 1..(Len(table.entries) - 1) :
          /\ ~Aligned(End(table.entries[i]))
          /\ table.entries[i + 1].start > End(table.entries[i])
    /\ \E i \in 1..(Len(table.entries) - 1) :
          /\ table.entries[i].size = 0
          /\ table.entries[i + 1].start = table.entries[i].start

\* Six adds, none failing, with the flags primary, primary, primary,
\* extended, logical, logical and neither number nor offset.
SixAdds ==
    /\ IsDOS
    /\ calls = Len(added)
    /\ Len(added) = 6
    /\ \A i \in 1..Len(added) : Plain(added[i])
    /\ [i \in 1..Len(added) |-> added[i].flag]
          = <<"primary", "primary", "primary", "extended", "logical", "logical">>

SixNumbers == [i \in 1..Len(table.entries) |-> table.entries[i].number] = <<1, 2, 3, 4, 5, 6>>

\* C8 as stated: the six adds give the numbers 1 to 6, entry 5 starts one
\* mebibyte after the start of the extended entry and entry 6 exactly one
\* mebibyte after the end of entry 5, whatever the sizes.
C8_LogicalOneMibAfterEnd ==
    SixAdds =>
        /\ SixNumbers
        /\ table.entries[5].start = table.entries[4].start + Mib
        /\ table.entries[6].start = End(table.entries[5]) + Mib

\* C8: the six adds give the numbers 1 to 6, entry 5 starts one mebibyte
\* after the start of the extended entry and entry 6 at the first multiple
\* of one mebibyte that is at least one mebibyte after the end of entry 5
\* (exactly one mebibyte after it when entry 5 ends on such a multiple).
C8_LogicalAlignedAfterEnd ==
    SixAdds =>
        /\ SixNumbers
        /\ table.entries[5].start = table.entries[4].start + Mib
        /\ Aligned(table.entries[6].start)
        /\ table.entries[6].start >= End(table.entries[5]) + Mib
        /\ table.entries[6].start < End(table.entries[5]) + Mib + Mib

\* The six adds with entry 5 ending off a mebibyte boundary.
C8_Witness ==
    /\ SixAdds
    /\ SixNumbers
    /\ ~Aligned(End(table.entries[5]))

\* The actions added before the last call.
PriorAdded ==
    IF res.st = "ok" THEN SubSeq(added, 1, Len(added) - 1) ELSE added

LogicalCall == IsDOS /\ res # NoCall /\ Flag(res.action) = "logical"

\* C9: on an MBR table the add of a logical action fails, with
\* MissingExtendedPartition, exactly when no extended action was added
\* before it; otherwise it succeeds with a number above 4 that does not
\* depend on the number of the action: 4 plus the count of the logical
\* actions added so far.
C9_LogicalNeedsExtended ==
    LogicalCall =>
        /\ res.st \in {"ok", "MissingExtendedPartition"}
        /\ res.st = "MissingExtendedPartition"
              <=> ~\E i \in 1..Len(PriorAdded) : Flag(PriorAdded[i]) = "extended"
        /\ res.st = "ok" =>
              /\ res.entry.number > 4
              /\ res.entry.number
                    = 4 + Cardinality({i \in 1..Len(added) : Flag(added[i]) = "logical"})

\* A logical action asking for number 2 becomes the second logical entry.
C9_Witness ==
    /\ LogicalCall
    /\ res.st = "ok"
    /\ "number" \in DOMAIN res.action
    /\ res.action["number"] < 4
    /\ res.entry.number > 5

\* The number a non-logical action asks for: its own, or its insertion
\* position.
Requested == Get(res.action, "number", Len(PriorAdded) + 1)

Event(op, at, mode) == [op |-> op, at |-> at, mode |-> mode]

\* The wipe action given is not looked at first: preserve comes first.
_wipe_for_action_preserve_first(action) ==
    IF Get(action, "preserve", FALSE) = TRUE THEN "None"
    ELSE IF "wipe" \in DOMAIN action THEN action["wipe"]
    ELSE IF Get(action, "flag", "None") = "extended" THEN "None" ELSE "superblock"

\* New extended partitions are wiped like the others.
_wipe_for_action_ebr(action) ==
    IF "wipe" \in DOMAIN action THEN action["wipe"]
    ELSE IF Get(action, "preserve", FALSE) = TRUE THEN "None"
    ELSE "superblock"

_wipe_for_action(action) ==
    IF "wipe" \in DOMAIN action THEN action["wipe"]
    ELSE IF Get(action, "preserve", FALSE) = TRUE THEN "None"
    ELSE IF Get(action, "flag", "None") = "extended" THEN "None" ELSE "superblock"

\* The lookup that finds a partition at any offset.
_find_part_info_any(sfdisk_info, offset) == "ok"

\* sfdisk_info['partitions'] is kept as the set of their 'start'.
_find_part_info(sfdisk_info, offset) ==
    IF offset \in sfdisk_info THEN "ok" ELSE "PartitionNotFound"

\* partition_verify_sfdisk(action, label, part_info): it returns or raises,
\* as the caller of the handler has it (verifies).
partition_verify_sfdisk(verifies) ==
    IF verifies THEN "ok" ELSE "PreserveMismatch"

\* Every partition the new table does not start a partition at is deleted.
BeingDeleted_unplanned(offset_sectors, preserved_offsets, wipes) ==
    offset_sectors \notin DOMAIN wipes

\* `if offset_sectors not in preserved_offsets`
BeingDeleted(offset_sectors, preserved_offsets, wipes) ==
    offset_sectors \notin preserved_offsets

\* The elements of a set of numbers in increasing order.
RECURSIVE Ascending(_)
Ascending(S) ==
    IF S = {} THEN <<>>
    ELSE LET m == CHOOSE x \in S : \A y \in S : x <= y
         IN  <<m>> \o Ascending(S \ {m})

\* block.sysfs_partition_data(disk): the byte offsets of the partitions.
sysfs_partition_data(self, parts) ==
    LET starts == Ascending(parts)
    IN  [i \in 1..Len(starts) |-> sectors2bytes(self, starts[i])]

NoWipes == [x \in {} |-> "None"]

\* `for action in part_actions:` from position i on.  acc holds the table,
\* whether sfdisk_info is loaded, preserved_offsets, wipes, the value of
\* `wipe` in each turn (modes) and the log.
RECURSIVE PartActionLoop(_, _, _, _, _)
PartActionLoop(part_actions, i, acc, parts, verifies) ==
    IF i > Len(part_actions) THEN acc
    ELSE
      LET action == part_actions[i]
          r == IF acc.table.label = "gpt" THEN GPTPartTable_add(acc.table, action)
               ELSE DOSPartTable_add(acc.table, action)
          preserve == Get(action, "preserve", FALSE) = TRUE
          log1 == IF preserve /\ ~acc.sfdisk_info
                  THEN Append(acc.log, Event("sfdisk_info", 0, "None"))
                  ELSE acc.log
      IN
      IF r.st # "ok" THEN [acc EXCEPT !.st = r.st]
      ELSE
        LET entry == r.entry
            found == IF preserve THEN _find_part_info(parts, entry.start) ELSE "ok"
            log2 == IF preserve /\ found = "ok"
                    THEN Append(log1, Event("verify", entry.start, "None"))
                    ELSE log1
            verified == IF preserve /\ found = "ok"
                        THEN partition_verify_sfdisk(verifies) ELSE "ok"
            wipe == _wipe_for_action(action)
            log3 == IF wipe # "None"
                    THEN Append(log2, Event("zero", sectors2bytes(r.table, entry.start), "None"))
                    ELSE log2
        IN
        IF found # "ok"
        THEN [acc EXCEPT !.st = found, !.table = r.table, !.log = log1,
                         !.sfdisk_info = TRUE]
        ELSE IF verified # "ok"
        THEN [acc EXCEPT !.st = verified, !.table = r.table, !.log = log2,
                         !.sfdisk_info = TRUE]
        ELSE PartActionLoop(part_actions, i + 1,
                [acc EXCEPT !.table = r.table,
                            !.sfdisk_info = acc.sfdisk_info \/ preserve,
                            !.preserved_offsets =
                                IF preserve THEN acc.preserved_offsets \cup {entry.start}
                                ELSE acc.preserved_offsets,
                            !.wipes = (entry.start :> wipe) @@ acc.wipes,
                            !.modes = Append(acc.modes, wipe),
                            !.log = log3],
                parts, verifies)

\* The events of a loop over the partitions on the disk, in order.
RECURSIVE WipeDeleted(_, _, _, _, _)
WipeDeleted(self, offsets, i, preserved_offsets, wipes) ==
    IF i > Len(offsets) THEN <<>>
    ELSE LET offset_sectors == bytes2sectors(self, offsets[i])
         IN  (IF BeingDeleted(offset_sectors, preserved_offsets, wipes)
              THEN <<Event("wipe_old", offset_sectors, "superblock")>>
              ELSE <<>>)
             \o WipeDeleted(self, offsets, i + 1, preserved_offsets, wipes)

RECURSIVE WipeNew(_, _, _, _)
WipeNew(self, offsets, i, wipes) ==
    IF i > Len(offsets) THEN <<>>
    ELSE LET offset_sectors == bytes2sectors(self, offsets[i])
             mode == wipes[offset_sectors]
         IN  (IF mode # "None"
              THEN <<Event("wipe_new", offset_sectors, mode)>>
              ELSE <<>>)
             \o WipeNew(self, offsets, i + 1, wipes)

\* `make_dname(action['id'], storage_config)` for the actions not extended.
RECURSIVE MakeDnames(_, _)
MakeDnames(part_actions, i) ==
    IF i > Len(part_actions) THEN <<>>
    ELSE (IF Get(part_actions[i], "flag", "None") # "extended"
          THEN <<Event("make_dname", i, "None")>>
          ELSE <<>>)
         \o MakeDnames(part_actions, i + 1)

\* sfdisk writes the table: the disk holds the partitions of the entries.
apply(self) == {self.entries[i].start : i \in 1..Len(self.entries)}

\* The outcome: st, the table, preserved_offsets, wipes, modes, the log
\* and the partitions on the disk afterwards.
disk_handler_v2(info, part_actions, sector_size, parts, verifies) ==
    LET table_cls == IF info.ptable = "msdos" THEN "dos"
                     ELSE IF info.ptable = "gpt" THEN "gpt" ELSE "None"
        start == [st |-> "ok", table |-> NoTable, sfdisk_info |-> FALSE,
                  preserved_offsets |-> {}, wipes |-> NoWipes, modes |-> <<>>,
                  log |-> <<>>, parts |-> parts]
    IN
    IF table_cls = "None"
    THEN [start EXCEPT !.log = [i \in 1..Len(part_actions) |->
                                   Event("partition_handler_v1", i, "None")]]
    ELSE
      LET t == SFDiskPartTable(table_cls, sector_size)
      IN
      IF t.label = "Exception" THEN [start EXCEPT !.st = "Exception"]
      ELSE
        LET a == PartActionLoop(part_actions, 1, [start EXCEPT !.table = t],
                                parts, verifies)
        IN
        IF a.st # "ok" THEN a
        ELSE
          LET deleted == WipeDeleted(a.table, sysfs_partition_data(a.table, parts), 1,
                                     a.preserved_offsets, a.wipes)
              after == apply(a.table)
              new == WipeNew(a.table, sysfs_partition_data(a.table, after), 1, a.wipes)
              names == IF info.name THEN MakeDnames(part_actions, 1) ELSE <<>>
          IN  [a EXCEPT !.log = a.log \o deleted \o <<Event("apply", 0, "None")>>
                                   \o new \o names,
                        !.parts = after]

MaxPartActions == 2

\* The partition actions of a disk: flag, size, and preserve and wipe or not.
\* 1000 bytes are less than one sector of 4096 bytes.
DiskActions ==
    UNION {{Act(flag, ONE_MIB_BYTES),
                   With(Act(flag, ONE_MIB_BYTES), "preserve", TRUE),
                   With(Act(flag, ONE_MIB_BYTES), "wipe", "zero"),
                   With(With(Act(flag, ONE_MIB_BYTES), "preserve", TRUE), "wipe", "zero")} :
                  flag \in {"primary", "extended", "logical"}}
    \cup {With(Act("primary", ONE_MIB_BYTES), "preserve", FALSE),
          With(Act("extended", ONE_MIB_BYTES), "wipe", "superblock"),
          Act("extended", 1000),
          Act("primary", 1000),
          [size |-> ONE_MIB_BYTES]}

\* the lists of k partition actions
PartActions(k) == [1..k -> DiskActions]

\* The partitions found on the disk when the handler runs (after
\* disk_handler_v1), by the mebibyte they start at.
DiskLayouts == {{}, {1}, {1, 2}, {2, 7}}

DiskInput(ptable, name, part_actions, sector_size, layout, verifies) ==
    [info |-> [ptable |-> ptable, name |-> name],
     part_actions |-> part_actions,
     sector_size |-> sector_size,
     parts |-> {(m * ONE_MIB_BYTES) \div sector_size : m \in layout},
     verifies |-> verifies,
     out |-> NotRun]

\* The inputs: both labels with sectors of 512 bytes over every layout, and
\* other sector sizes and a disk without ptable over one layout.
InitDisk ==
    /\ config = <<>>
    /\ last = NoCall
    /\ trees = NotRun
    /\ merged = NotRun
    /\ remerged = NotRun
    /\ table = NoTable
    /\ added = <<>>
    /\ calls = 0
    /\ res = NoCall
    /\ \/ \E ptable \in {"gpt", "msdos"}, name \in BOOLEAN, k \in 0..MaxPartActions,
             layout \in DiskLayouts, verifies \in BOOLEAN :
             \E part_actions \in PartActions(k) :
                disk = DiskInput(ptable, name, part_actions, 512, layout, verifies)
       \/ \E ptable \in {"gpt", "msdos", "None"}, k \in 0..MaxPartActions,
             sector_size \in {4096, 520} :
             \E part_actions \in PartActions(k) :
                disk = DiskInput(ptable, FALSE, part_actions, sector_size, {1}, TRUE)
    /\ md = NotRun

\* disk_handler_v2(info, storage_config, handlers)
DiskHandlerV2 ==
    /\ disk # NotRun
    /\ disk.out = NotRun
    /\ disk' = [disk EXCEPT !.out = disk_handler_v2(disk.info, disk.part_actions,
                                                    disk.sector_size, disk.parts,
                                                    disk.verifies)]
    /\ UNCHANGED <<rvars, tvars, md>>

NextDisk == DiskHandlerV2

SpecDisk == InitDisk /\ [][NextDisk]_vars

(***************************************************************************)
(* Properties of disk_handler_v2.                                          *)
(***************************************************************************)
Ran == disk # NotRun /\ disk.out # NotRun

\* The handler computed a table (ptable is msdos or gpt, and the sector
\* size divides one mebibyte).
Tabled == Ran /\ disk.out.table # NoTable

Marked(action) == Get(action, "preserve", FALSE) = TRUE

\* The actions whose turn of the loop came to its end.
Handled == 1..Len(disk.out.modes)

StartOf(i) == disk.out.table.entries[i].start

\* No later entry starts where entry i starts: the plan, which is kept by
\* start sector, still holds what was recorded for entry i.
Planned(i) == i \in Handled /\ \A j \in Handled : j > i => StartOf(j) # StartOf(i)

Logged(op, at) == \E k \in 1..Len(disk.out.log) :
                     disk.out.log[k].op = op /\ disk.out.log[k].at = at

Applied == \E k \in 1..Len(disk.out.log) : disk.out.log[k].op = "apply"

\* how many times the first mebibyte at sector start was zeroed
Zeroed(start) ==
    Cardinality({k \in 1..Len(disk.out.log) :
                    /\ disk.out.log[k].op = "zero"
                    /\ disk.out.log[k].at = start * disk.sector_size})

Precedence(action) ==
    IF "wipe" \in DOMAIN action THEN action["wipe"]
    ELSE IF Marked(action) THEN "None"
    ELSE IF Flag(action) = "extended" THEN "None"
    ELSE "superblock"

\* C11: the wipe mode recorded for an entry is the action's wipe field if it
\* has one, else none if the action is marked preserve, else none if its
\* flag is extended, else superblock; the plan holds it at the entry's
\* start, and the first mebibyte at a start is zeroed once for every entry
\* at that start whose mode is not none.
C11_WipePrecedence ==
    Tabled =>
        \A i \in Handled :
            /\ disk.out.modes[i] = Precedence(disk.part_actions[i])
            /\ Planned(i) => disk.out.wipes[StartOf(i)] = Precedence(disk.part_actions[i])
            /\ Zeroed(StartOf(i)) =
                  Cardinality({j \in Handled : /\ StartOf(j) = StartOf(i)
                                               /\ Precedence(disk.part_actions[j]) # "None"})

\* A preserved action with a wipe field is recorded with its wipe field,
\* after an extended action without one.
C11_Witness ==
    /\ Tabled
    /\ disk.out.st = "ok"
    /\ \E i, j \in Handled :
          /\ i < j
          /\ Flag(disk.part_actions[i]) = "extended"
          /\ "wipe" \notin DOMAIN disk.part_actions[i]
          /\ disk.out.modes[i] = "None"
          /\ Marked(disk.part_actions[j])
          /\ "wipe" \in DOMAIN disk.part_actions[j]
          /\ disk.out.wipes[StartOf(j)] = "zero"

\* C12 as stated: in the plan a new extended entry maps to none whatever
\* its action carries, a new entry that is not extended to superblock, and
\* a preserved entry to none.
C12_PlanByKind ==
    Tabled =>
        \A i \in Handled :
            Planned(i) =>
                LET action == disk.part_actions[i]
                    mode == disk.out.wipes[StartOf(i)]
                IN  /\ (~Marked(action) /\ Flag(action) = "extended") => mode = "None"
                    /\ (~Marked(action) /\ Flag(action) # "extended") => mode = "superblock"
                    /\ Marked(action) => mode = "None"

\* C12: in the plan the entry of an action without wipe field maps to none
\* when it is a new extended entry, to superblock when it is a new entry
\* not extended, and to none when it is preserved; the entry of an action
\* with a wipe field maps to that field.
C12_PlanByKindUnlessWipeGiven ==
    Tabled =>
        \A i \in Handled :
            Planned(i) =>
                LET action == disk.part_actions[i]
                    mode == disk.out.wipes[StartOf(i)]
                IN  IF "wipe" \in DOMAIN action THEN mode = action["wipe"]
                    ELSE /\ (~Marked(action) /\ Flag(action) = "extended") => mode = "None"
                         /\ (~Marked(action) /\ Flag(action) # "extended") => mode = "superblock"
                         /\ Marked(action) => mode = "None"

\* A run with a new extended entry, a new entry not extended and a
\* preserved entry, none with a wipe field.
C12_Witness ==
    /\ Tabled
    /\ disk.out.st = "ok"
    /\ \A i \in Handled : "wipe" \notin DOMAIN disk.part_actions[i]
    /\ \E i \in Handled : ~Marked(disk.part_actions[i]) /\ Flag(disk.part_actions[i]) = "extended"
                          /\ disk.out.wipes[StartOf(i)] = "None"
    /\ \E i \in Handled : Marked(disk.part_actions[i])
                          /\ disk.out.wipes[StartOf(i)] = "None"

\* The partitions on the disk are wiped, if at all, before the table is
\* applied.
WipedBeforeApply ==
    \A k, l \in 1..Len(disk.out.log) :
        (disk.out.log[k].op = "wipe_old" /\ disk.out.log[l].op = "apply") => k < l

\* C13 as stated: before the table is applied a partition on the disk is
\* wiped (superblock) exactly when no entry of the new table, preserved or
\* not, starts where it starts.
C13_WipedIffNoEntryStarts ==
    (Tabled /\ Applied) =>
        /\ WipedBeforeApply
        /\ \A s \in disk.parts :
              Logged("wipe_old", s) <=> s \notin {StartOf(i) : i \in Handled}

\* C13: before the table is applied a partition on the disk is wiped
\* (superblock) exactly when no preserved entry of the new table starts
\* where it starts.
C13_WipedIffNoPreservedEntryStarts ==
    (Tabled /\ Applied) =>
        /\ WipedBeforeApply
        /\ \A s \in disk.parts :
              Logged("wipe_old", s)
                 <=> s \notin {StartOf(i) : i \in {j \in Handled : Marked(disk.part_actions[j])}}
        /\ \A k \in 1..Len(disk.out.log) :
              disk.out.log[k].op = "wipe_old" =>
                 disk.out.log[k].mode = "superblock" /\ disk.out.log[k].at \in disk.parts

\* A partition where a new entry starts is wiped, one where a preserved
\* entry starts is not.
C13_Witness ==
    /\ Tabled
    /\ Applied
    /\ \E i, j \in Handled :
          /\ Marked(disk.part_actions[i])
          /\ ~Marked(disk.part_actions[j])
          /\ StartOf(j) \in disk.parts
          /\ ~Logged("wipe_old", StartOf(i))
          /\ Logged("wipe_old", StartOf(j))

\* C14: every action marked preserve whose turn comes has the partition
\* that starts at its entry's start looked up; when there is none, or the
\* verifier refuses it, the handler fails, the table is not applied and
\* the disk keeps its partitions.
C14_PreserveFailureStopsLayout ==
    Tabled =>
        LET k == Len(disk.out.modes) + 1
        IN  /\ \A i \in Handled :
                  Marked(disk.part_actions[i]) =>
                      /\ StartOf(i) \in disk.parts
                      /\ Logged("verify", StartOf(i))
                      /\ disk.verifies
            /\ disk.out.st = "PartitionNotFound" =>
                  /\ Marked(disk.part_actions[k])
                  /\ StartOf(k) \notin disk.parts
            /\ disk.out.st = "PreserveMismatch" =>
                  /\ Marked(disk.part_actions[k])
                  /\ StartOf(k) \in disk.parts
                  /\ ~disk.verifies
            /\ disk.out.st \in {"PartitionNotFound", "PreserveMismatch"} =>
                  /\ ~Applied
                  /\ disk.out.parts = disk.parts
                  /\ \A e \in Range(disk.out.log) : e.op \notin {"wipe_old", "wipe_new"}
            /\ disk.out.st = "ok" => Len(disk.out.modes) = Len(disk.part_actions)

\* A second action marked preserve finds no partition, after a first one
\* was verified.
C14_Witness ==
    /\ Tabled
    /\ disk.out.st = "PartitionNotFound"
    /\ Len(disk.out.modes) = 1
    /\ Marked(disk.part_actions[1])
    /\ ~Applied

(***************************************************************************)
(* Further properties of the resolver.                                     *)
(***************************************************************************)
TreeCall == last # NoCall /\ last.fn = "get_config_tree" /\ last.res.st = "ok"

TreeIds == [i \in 1..Len(last.res.tree) |-> last.res.tree[i].id]

\* The ids find_item_dependencies emits for an item, in an iteration order
\* of the dependency fields.
Emitted(item, kperm) ==
    Range(find_item_dependencies(item, config, TRUE, kperm, RecursionLimit(config)).deps)

\* C15: the tree get_config_tree returns has the item asked for as its
\* first key, holds every id once, holds the item and the ids
\* find_item_dependencies emits for it and no other, and maps each id to
\* the item of the configuration.
C15_TreeRootFirstNoDuplicates ==
    TreeCall =>
        /\ TreeIds[1] = last.item
        /\ \A i, j \in 1..Len(TreeIds) : TreeIds[i] = TreeIds[j] => i = j
        /\ \A kperm \in KeyPermsOf(config) :
              Range(TreeIds) = {last.item} \cup Emitted(last.item, kperm)
        /\ \A i \in 1..Len(TreeIds) : last.res.tree[i] = CfgGet(config, TreeIds[i])

\* The item asked for is emitted among its own dependencies, as a sibling
\* of itself, after another id.
C15_Witness ==
    /\ TreeCall
    /\ Len(TreeIds) > 2
    /\ \E kperm \in KeyPermsOf(config) :
          LET deps == find_item_dependencies(last.item, config, TRUE, kperm,
                                             RecursionLimit(config)).deps
          IN  \E i \in 2..Len(deps) : deps[i] = last.item

DepsCall ==
    /\ last # NoCall
    /\ last.fn = "find_item_dependencies"
    /\ last.res.st = "ok"
    /\ last.item_id \in Ids(config)

\* The dependency fields present on an item.
FieldsOf(item_cfg) == DOMAIN item_cfg.f \cap Range(_stype_to_deps(item_cfg.type))

\* C16 as stated: for every dependency field F of the item and every id V
\* it holds (alone, or in its list), the result holds the id of every
\* other item that holds V in its field F (alone, or in its list).
C16_SiblingsFound ==
    DepsCall =>
        LET item_cfg == CfgGet(config, last.item_id)
        IN  \A F \in FieldsOf(item_cfg) : \A V \in Range(item_cfg.f[F].v) :
                \A i \in 1..Len(config) :
                    (/\ config[i].id # last.item_id
                     /\ HasField(config[i], F)
                     /\ V \in Range(config[i].f[F].v))
                        => config[i].id \in Range(last.res.deps)

\* C16: for every dependency field F of the item and every id V it holds
\* (alone, or in its list), the result holds the id of every other item
\* whose field F is V alone, not a list.
C16_ScalarSiblingsFound ==
    DepsCall =>
        LET item_cfg == CfgGet(config, last.item_id)
        IN  \A F \in FieldsOf(item_cfg) : \A V \in Range(item_cfg.f[F].v) :
                \A i \in 1..Len(config) :
                    (/\ config[i].id # last.item_id
                     /\ HasField(config[i], F)
                     /\ config[i].f[F] = Scalar(V))
                        => config[i].id \in Range(last.res.deps)

\* An item's sibling that none of the item's fields names is in the result.
C16_Witness ==
    /\ DepsCall
    /\ LET item_cfg == CfgGet(config, last.item_id)
       IN  \E F \in FieldsOf(item_cfg) : \E V \in Range(item_cfg.f[F].v) :
              \E i \in 1..Len(config) :
                  /\ config[i].id # last.item_id
                  /\ HasField(config[i], F)
                  /\ config[i].f[F] = Scalar(V)
                  /\ \A G \in FieldsOf(item_cfg) : config[i].id \notin Range(item_cfg.f[G].v)
                  /\ config[i].id \in Range(last.res.deps)

None == [none |-> TRUE, v |-> <<>>]
Some(v) == [none |-> FALSE, v |-> v]

DevMd0 == <<"/", "d", "e", "v", "/", "m", "d", "0">>
Md0 == <<"m", "d", "0">>

\* `devpath.startswith('/dev') if devpath else False`
valid_devpath(devpath) ==
    IF devpath.none \/ devpath.v = <<>> THEN FALSE
    ELSE Len(devpath.v) >= 4 /\ SubSeq(devpath.v, 1, 4) = <<"/", "d", "e", "v">>

\* assert_valid_devpath raises ValueError
assert_valid_devpath(devpath) == IF valid_devpath(devpath) THEN "ok" ELSE "ValueError"

\* `[0.2] * 60`, the waits in tenths of a second
DefaultRetryCount == 60
DefaultRetries == [i \in 1..DefaultRetryCount |-> 2]

\* `if not retries: retries = [0.2] * 60`
EffectiveRetries(retries) ==
    IF retries.none \/ retries.v = <<>> THEN DefaultRetries ELSE retries.v

NoAttempt == [sync_action |-> "unread", wrote_action |-> "no",
              sync_max |-> "unread", wrote_max |-> "no", wrote_min |-> "no",
              cmd |-> "none", raised |-> "no"]

\* What the system does in one attempt: what the two attributes read as
\* ("invalid": valid_mdname raises ValueError), whether the writes and the
\* stop command fail.
StopEnvs ==
    [sync_action : {"idle", "resync", "", "invalid"},
     write_action : {"ok", "failed"},
     sync_max : {"0", "max", "invalid"},
     write_max : {"ok", "failed"},
     write_min : {"ok", "failed"},
     cmd : {"ok", "failed"}]

\* A failed write to a sysfs attribute ends the attempt: it is raised.
stop_attempt_fatal_write(env) ==
    IF env.sync_action = "invalid"
    THEN [NoAttempt EXCEPT !.sync_action = "invalid", !.raised = "ValueError"]
    ELSE
      LET wa == IF env.sync_action # "idle" THEN env.write_action ELSE "no"
          a1 == [NoAttempt EXCEPT !.sync_action = env.sync_action, !.wrote_action = wa]
      IN
      IF wa = "failed" THEN [a1 EXCEPT !.raised = "OSError"]
      ELSE IF env.sync_max = "invalid"
      THEN [a1 EXCEPT !.sync_max = "invalid", !.raised = "ValueError"]
      ELSE
        LET wmax == IF env.sync_max # "0" THEN env.write_max ELSE "no"
            wmin == IF env.sync_max # "0" /\ wmax = "ok" THEN env.write_min ELSE "no"
            a2 == [a1 EXCEPT !.sync_max = env.sync_max, !.wrote_max = wmax, !.wrote_min = wmin]
        IN  IF wmax = "failed" \/ wmin = "failed" THEN [a2 EXCEPT !.raised = "OSError"]
            ELSE [a2 EXCEPT !.cmd = env.cmd,
                            !.raised = IF env.cmd = "ok" THEN "no"
                                       ELSE "ProcessExecutionError"]

\* The body of the `try:` of one attempt: the reads, the writes, the stop
\* command; raised is what leaves the body.
stop_attempt(env) ==
    IF env.sync_action = "invalid"
    THEN [NoAttempt EXCEPT !.sync_action = "invalid", !.raised = "ValueError"]
    ELSE
      LET wa == IF env.sync_action # "idle" THEN env.write_action ELSE "no"
          a1 == [NoAttempt EXCEPT !.sync_action = env.sync_action, !.wrote_action = wa]
      IN
      IF env.sync_max = "invalid"
      THEN [a1 EXCEPT !.sync_max = "invalid", !.raised = "ValueError"]
      ELSE
        LET wmax == IF env.sync_max # "0" THEN env.write_max ELSE "no"
            wmin == IF env.sync_max # "0" /\ wmax = "ok" THEN env.write_min ELSE "no"
        IN  [a1 EXCEPT !.sync_max = env.sync_max, !.wrote_max = wmax, !.wrote_min = wmin,
                       !.cmd = env.cmd,
                       !.raised = IF env.cmd = "ok" THEN "no"
                                  ELSE "ProcessExecutionError"]

\* The loop goes on after a stop command that succeeded.
mdadm_stop_step_no_return(self, a) ==
    LET attempt == self.attempt + 1
        issued == self.issued + (IF a.cmd # "none" THEN 1 ELSE 0)
        next == [self EXCEPT !.attempt = attempt, !.issued = issued, !.last = a]
    IN  IF a.raised \in {"ValueError", "OSError"} THEN [next EXCEPT !.st = a.raised]
        ELSE LET slept == [next EXCEPT !.slept = self.slept + (IF a.raised = "no" THEN 0 ELSE 1)]
             IN  IF attempt = Len(self.retries)
                 THEN [slept EXCEPT !.st = "OSError"]
                 ELSE slept

\* One turn of `for (attempt, wait) in enumerate(retries):` with its
\* `except util.ProcessExecutionError`, and the `raise OSError` that
\* follows the last turn.
mdadm_stop_step(self, a) ==
    LET attempt == self.attempt + 1
        issued == self.issued + (IF a.cmd # "none" THEN 1 ELSE 0)
        next == [self EXCEPT !.attempt = attempt, !.issued = issued, !.last = a]
    IN  IF a.raised = "no" THEN [next EXCEPT !.st = "returned"]
        ELSE IF a.raised \in {"ValueError", "OSError"} THEN [next EXCEPT !.st = a.raised]
        ELSE LET slept == [next EXCEPT !.slept = self.slept + 1]
             IN  IF attempt = Len(self.retries)
                 THEN [slept EXCEPT !.st = "OSError"]
                 ELSE slept

MaxRetries == 3

\* retries: not given, empty, or one to MaxRetries waits.
StopRetries == {None} \cup {Some([i \in 1..n |-> 1]) : n \in 0..MaxRetries}

StopDevpaths == {Some(DevMd0), Some(Md0), Some(<<>>), None}

InitStop ==
    /\ config = <<>>
    /\ last = NoCall
    /\ trees = NotRun
    /\ merged = NotRun
    /\ remerged = NotRun
    /\ table = NoTable
    /\ added = <<>>
    /\ calls = 0
    /\ res = NoCall
    /\ disk = NotRun
    /\ \E devpath \in StopDevpaths, retries \in StopRetries :
          md = [fn |-> "mdadm_stop", devpath |-> devpath, given |-> retries,
                retries |-> <<>>, attempt |-> 0, issued |-> 0, slept |-> 0,
                st |-> "called", last |-> NoAttempt]

\* mdadm_stop up to its loop
MdadmStopBegin ==
    /\ md # NotRun
    /\ md.fn = "mdadm_stop"
    /\ md.st = "called"
    /\ md' = IF assert_valid_devpath(md.devpath) # "ok"
             THEN [md EXCEPT !.st = "ValueError"]
             ELSE [md EXCEPT !.st = "running", !.retries = EffectiveRetries(md.given)]
    /\ UNCHANGED <<rvars, tvars, disk>>

\* One attempt of mdadm_stop.
MdadmStopAttempt ==
    /\ md # NotRun
    /\ md.fn = "mdadm_stop"
    /\ md.st = "running"
    /\ md.attempt < Len(md.retries)
    /\ \E env \in StopEnvs : md' = mdadm_stop_step(md, stop_attempt(env))
    /\ UNCHANGED <<rvars, tvars, disk>>

NextStop == MdadmStopBegin \/ MdadmStopAttempt

SpecStop == InitStop /\ [][NextStop]_vars

\* ---------------------------------------------------------------------
\* Properties of mdadm_stop
\* ---------------------------------------------------------------------

Stopping == md # NotRun /\ md.fn = "mdadm_stop"

Attempted == Stopping /\ md.attempt > 0

Ended == Stopping /\ md.st \in {"returned", "OSError", "ValueError"}

\* len(retries) of the argument, sixty when the argument is not given
GivenCount == IF md.given.none THEN DefaultRetryCount ELSE Len(md.given.v)

\* the number of waits the loop runs over
LoopCount == Len(EffectiveRetries(md.given))

\* The attempts of a call that is in its loop or past it, counted against
\* the bound n: the command is issued at most n times; the call returns
\* exactly when the command of the last attempt succeeded, every earlier
\* attempt having issued the command and failed; a failed command with
\* attempts left is followed by a sleep and leaves the loop running with
\* another attempt to make; OSError is raised when the n-th command failed.
AttemptsWithin(n) ==
    (Stopping /\ md.st \in {"running", "returned", "OSError"}) =>
        /\ md.issued <= n
        /\ md.attempt <= n
        /\ (Attempted /\ md.last.cmd = "ok") =>
              md.st = "returned" /\ md.issued = md.attempt
        /\ md.st = "returned" =>
              md.last.cmd = "ok" /\ md.slept = md.attempt - 1
        /\ (Attempted /\ md.last.raised = "ProcessExecutionError") =>
              /\ md.issued = md.attempt
              /\ md.slept = md.attempt
              /\ md.st = (IF md.attempt = n THEN "OSError" ELSE "running")
        /\ md.st = "running" => md.attempt < n
        /\ md.st = "OSError" =>
              /\ md.attempt = n
              /\ md.issued = n
              /\ md.last.raised = "ProcessExecutionError"

\* a call that returned or raised makes no further attempt
NoFurtherAttempt == Ended => md' = md

\* C18 as stated: mdadm_stop issues the stop command at most len(retries)
\* times, sixty when retries is not given; it returns right after the first
\* attempt whose command succeeds and makes no further attempt, retries
\* after a process-execution error, and raises OSError once all
\* len(retries) attempts have failed.
C18_AtMostLenRetries == [][AttemptsWithin(GivenCount)' /\ NoFurtherAttempt]_vars

\* C18 amended: the same with the bound taken as the number of waits the
\* loop runs over, which is len(retries) for a non-empty retries and sixty
\* when retries is not given or is empty.
C18_AtMostEffectiveRetries == [][AttemptsWithin(LoopCount)' /\ NoFurtherAttempt]_vars

\* An empty retries was given and the sixtieth command failed.
C18_Witness ==
    /\ Stopping
    /\ md.given = Some(<<>>)
    /\ md.st = "OSError"
    /\ md.issued = DefaultRetryCount

\* C19: in every attempt whose two reads succeeded the stop command is
\* issued whether or not the writes to sync_action, sync_max and sync_min
\* failed, and what the attempt does to the call follows from the command
\* alone: the call returns exactly when the command succeeded and otherwise
\* went through the process-execution-error branch; sync_action is written
\* only when it was not read as idle, sync_max and sync_min only when
\* sync_max was not read as 0.
C19_FailedWritesNotFatal ==
    Attempted =>
        /\ md.last.sync_max \notin {"unread", "invalid"} => md.last.cmd # "none"
        /\ md.last.cmd = "ok" <=> md.st = "returned"
        /\ md.last.cmd = "failed" =>
              md.last.raised = "ProcessExecutionError" /\ md.st \in {"running", "OSError"}
        /\ md.last.cmd = "none" => md.st = "ValueError"
        /\ md.last.wrote_action # "no" => md.last.sync_action \notin {"idle", "unread", "invalid"}
        /\ (md.last.wrote_max # "no" \/ md.last.wrote_min # "no") =>
              md.last.sync_max \notin {"0", "unread", "invalid"}
        /\ md.last.wrote_min # "no" => md.last.wrote_max = "ok"

\* The writes to sync_action and sync_max failed and the call returned.
C19_Witness ==
    /\ Attempted
    /\ md.last.wrote_action = "failed"
    /\ md.last.wrote_max = "failed"
    /\ md.last.cmd = "ok"
    /\ md.st = "returned"

(***************************************************************************)
(* mdadm_create.  A raid level is [int, s]: whether it is a python int,    *)
(* and its text.  What the call does to the system is a log of events.     *)
(***************************************************************************)
IntLevel(s) == [int |-> TRUE, s |-> s]
StrLevel(s) == [int |-> FALSE, s |-> s]

NOSPARE_RAID_LEVELS ==
    {StrLevel("linear"), StrLevel("raid0"), StrLevel("0"), IntLevel("0"),
     StrLevel("container")}

SPARE_RAID_LEVELS ==
    {StrLevel("raid1"), StrLevel("stripe"), StrLevel("mirror"), StrLevel("1"), IntLevel("1"),
     StrLevel("raid4"), StrLevel("4"), IntLevel("4"),
     StrLevel("raid5"), StrLevel("5"), IntLevel("5"),
     StrLevel("raid6"), StrLevel("6"), IntLevel("6"),
     StrLevel("raid10"), StrLevel("10"), IntLevel("10")}

VALID_RAID_LEVELS == NOSPARE_RAID_LEVELS \cup SPARE_RAID_LEVELS

\* raidlevel.replace('raid', ''), on the texts of the levels
ReplaceRaid(s) ==
    CASE s = "raid0" -> "0"
      [] s = "raid1" -> "1"
      [] s = "raid4" -> "4"
      [] s = "raid5" -> "5"
      [] s = "raid6" -> "6"
      [] s = "raid7" -> "7"
      [] s = "raid10" -> "10"
      [] OTHER -> s

\* int(s): the texts that are numbers; any other raises ValueError
IsNumber(s) == s \in {"0", "1", "4", "5", "6", "7", "10", "27"}

\* The short level [st, rl]: rl a level as above.
md_raidlevel_short(raidlevel) ==
    IF raidlevel.int \/ raidlevel.s \in {"linear", "stripe", "container"}
    THEN [st |-> "ok", rl |-> raidlevel]
    ELSE IF IsNumber(ReplaceRaid(raidlevel.s))
    THEN [st |-> "ok", rl |-> IntLevel(ReplaceRaid(raidlevel.s))]
    ELSE [st |-> "ValueError", rl |-> raidlevel]

\* The minimum of raid 5 is that of raid 1.
md_minimum_devices_two(raidlevel) ==
    LET r == md_raidlevel_short(raidlevel)
    IN  IF r.st # "ok" THEN [st |-> r.st, min |-> 0]
        ELSE [st |-> "ok",
              min |-> IF r.rl \in {IntLevel("0"), IntLevel("1"), IntLevel("5"), StrLevel("linear"),
                                   StrLevel("stripe"), StrLevel("container")} THEN 2
                      ELSE IF r.rl \in {IntLevel("6"), IntLevel("10")} THEN 4
                      ELSE -1]

\* [st, min]: the minimum, or the ValueError of md_raidlevel_short.
md_minimum_devices(raidlevel) ==
    LET r == md_raidlevel_short(raidlevel)
    IN  IF r.st # "ok" THEN [st |-> r.st, min |-> 0]
        ELSE [st |-> "ok",
              min |-> IF r.rl \in {IntLevel("0"), IntLevel("1"), StrLevel("linear"),
                                   StrLevel("stripe"), StrLevel("container")} THEN 2
                      ELSE IF r.rl = IntLevel("5") THEN 3
                      ELSE IF r.rl \in {IntLevel("6"), IntLevel("10")} THEN 4
                      ELSE -1]

\* A word of the command line: an option, with a number or a path or text.
Word(opt, n, path) == [opt |-> opt, n |-> n, path |-> path]

Paths(devs) == [i \in 1..Len(devs) |-> Word("", 0, devs[i])]

\* `for device in devices:` from position i on: holders, then zero_device
\* (which raises ValueError on a path not under /dev).
\* A device is zeroed before its holders are looked up.
RECURSIVE CreateDevices_zero_first(_, _, _, _)
CreateDevices_zero_first(devices, i, held, log) ==
    IF i > Len(devices) THEN [st |-> "ok", log |-> log]
    ELSE IF ~valid_devpath(Some(devices[i])) THEN [st |-> "ValueError", log |-> log]
    ELSE LET log1 == log \o <<Event("zero_device", devices[i], "None"),
                              Event("get_holders", devices[i], "None")>>
         IN  IF devices[i] \in held THEN [st |-> "OSError", log |-> log1]
             ELSE CreateDevices_zero_first(devices, i + 1, held, log1)

RECURSIVE CreateDevices(_, _, _, _)
CreateDevices(devices, i, held, log) ==
    IF i > Len(devices) THEN [st |-> "ok", log |-> log]
    ELSE LET log1 == Append(log, Event("get_holders", devices[i], "None"))
         IN  IF devices[i] \in held THEN [st |-> "OSError", log |-> log1]
             ELSE IF ~valid_devpath(Some(devices[i]))
             THEN [st |-> "ValueError", log |-> log1]
             ELSE CreateDevices(devices, i + 1, held,
                                Append(log1, Event("zero_device", devices[i], "None")))

RECURSIVE CreateSpares(_, _, _)
CreateSpares(spares, i, log) ==
    IF i > Len(spares) THEN [st |-> "ok", log |-> log]
    ELSE IF ~valid_devpath(Some(spares[i])) THEN [st |-> "ValueError", log |-> log]
    ELSE CreateSpares(spares, i + 1, Append(log, Event("zero_device", spares[i], "None")))

\* The checks of the arguments, before `hostname -s`: "ok" or "ValueError".
\* members is md_get_devices_list(container).
mdadm_create_checks(md_devname, raidlevel, devices, spares, container, members) ==
    IF assert_valid_devpath(md_devname) # "ok" THEN "ValueError"
    ELSE IF raidlevel \notin VALID_RAID_LEVELS THEN "ValueError"
    ELSE
      LET min_devices == md_minimum_devices(raidlevel)
          devcnt == IF ~container.none /\ container.v # <<>> THEN Len(members)
                    ELSE Len(devices)
      IN  IF min_devices.st # "ok" THEN min_devices.st
          ELSE IF devcnt < min_devices.min THEN "ValueError"
          ELSE IF ~spares.none /\ spares.v # <<>> /\ raidlevel \notin SPARE_RAID_LEVELS
          THEN "ValueError"
          ELSE "ok"

\* The hostname is looked up before the arguments are checked.
mdadm_create_hostname_first(md_devname, raidlevel, devices, spares, container, members, md_name, metadata, held, create_ok) ==
    [st |-> mdadm_create_checks(md_devname, raidlevel, devices, spares, container, members),
     log |-> <<Event("hostname", <<>>, "None")>>]

\* The outcome [st, log].  held: the devices that have holders; create_ok:
\* whether `mdadm --create` succeeds.
mdadm_create(md_devname, raidlevel, devices, spares, container, members, md_name, metadata, held, create_ok) ==
    LET has_container == ~container.none /\ container.v # <<>>
        has_spares == ~spares.none /\ spares.v # <<>>
        checks == mdadm_create_checks(md_devname, raidlevel, devices, spares,
                                      container, members)
        log0 == IF valid_devpath(md_devname) /\ raidlevel \in VALID_RAID_LEVELS
                   /\ md_minimum_devices(raidlevel).st = "ok" /\ has_container
                THEN <<Event("md_get_devices_list", container.v, "None")>>
                ELSE <<>>
    IN
    IF checks # "ok" THEN [st |-> checks, log |-> log0]
    ELSE
      LET devcnt == IF has_container THEN Len(members) ELSE Len(devices)
          cmd == <<Word("mdadm", 0, <<>>), Word("--create", 0, md_devname.v),
                   Word("--run", 0, <<>>), Word("--homehost", 0, <<>>),
                   Word("--raid-devices", devcnt, <<>>)>>
                 \o (IF ~has_container
                     THEN <<Word("--metadata", 0,
                                 IF metadata.none \/ metadata.v = <<>>
                                 THEN <<"default">> ELSE metadata.v)>>
                     ELSE <<>>)
                 \o (IF raidlevel # StrLevel("container")
                     THEN <<Word("--level", 0, <<raidlevel.s>>)>> ELSE <<>>)
                 \o (IF md_name # <<>> THEN <<Word("--name", 0, md_name)>> ELSE <<>>)
                 \o (IF has_container THEN <<Word("", 0, container.v)>> ELSE <<>>)
          d == CreateDevices(devices, 1, held,
                             Append(log0, Event("hostname", <<>>, "None")))
      IN
      IF d.st # "ok" THEN d
      ELSE
        LET sp == IF has_spares THEN CreateSpares(spares.v, 1, d.log) ELSE d
        IN
        IF sp.st # "ok" THEN sp
        ELSE
          LET full == cmd \o Paths(devices)
                      \o (IF has_spares
                          THEN <<Word("--spare-devices", Len(spares.v), <<>>)>> \o Paths(spares.v)
                          ELSE <<>>)
              log1 == sp.log \o <<Event("udevadm_settle", <<>>, "None"),
                                  Event("stop-exec-queue", <<>>, "None"),
                                  Event("create", full, "None")>>
          IN
          IF create_ok
          THEN [st |-> "ok",
                log |-> log1 \o <<Event("start-exec-queue", <<>>, "None"),
                                  Event("udevadm_settle", md_devname.v, "None")>>]
          ELSE
            LET log2 == log1 \o <<Event("lsmod", <<>>, "None"), Event("find", <<>>, "None")>>
                all == devices \o spares.v
            IN  IF spares.none THEN [st |-> "TypeError", log |-> log2]
                ELSE [st |-> "ProcessExecutionError",
                      log |-> log2 \o [i \in 1..Len(all) |->
                                          Event("get_holders", all[i], "None")]]

MaxDevices == 4

DeviceLetters == <<"c", "d", "e", "f", "g", "h", "i", "j">>

Dev(letter) == <<"/", "d", "e", "v", "/", "v", "d", letter>>

\* the first k devices handed to mdadm_create
DevicePool(k) == [i \in 1..k |-> Dev(DeviceLetters[i])]

\* a device named without /dev
ShortDev == <<"v", "d", "x">>

DevImsm == <<"/", "d", "e", "v", "/", "m", "d", "/", "i", "m", "s", "m">>

CreateDevnames == {Some(DevMd0), Some(Md0), None}

CreateLevels == VALID_RAID_LEVELS \cup {IntLevel("27"), StrLevel("raid7")}

CreateDeviceLists ==
    {DevicePool(k) : k \in 0..MaxDevices}
        \cup {Append(DevicePool(k), ShortDev) : k \in 0..(MaxDevices - 1)}

CreateSpareLists == {None, Some(<<>>), Some(<<Dev("s")>>), Some(<<ShortDev>>)}

CreateContainers == {None, Some(<<>>), Some(DevImsm)}

\* what md_get_devices_list(container) reads: one member or MaxDevices
CreateMembers == {DevicePool(1), DevicePool(MaxDevices)}

CreateHeld == {{}, {Dev("c")}, {Dev("d")}}

NoOutcome == [st |-> "notrun", log |-> <<>>]

InitCreate ==
    /\ config = <<>>
    /\ last = NoCall
    /\ trees = NotRun
    /\ merged = NotRun
    /\ remerged = NotRun
    /\ table = NoTable
    /\ added = <<>>
    /\ calls = 0
    /\ res = NoCall
    /\ disk = NotRun
    /\ \E md_devname \in CreateDevnames, raidlevel \in CreateLevels,
          devices \in CreateDeviceLists, spares \in CreateSpareLists,
          container \in CreateContainers, members \in CreateMembers,
          held \in CreateHeld, create_ok \in BOOLEAN :
          /\ container = None => members = DevicePool(1)
          /\ md = [fn |-> "mdadm_create", md_devname |-> md_devname,
                   raidlevel |-> raidlevel, devices |-> devices, spares |-> spares,
                   container |-> container, members |-> members,
                   md_name |-> <<>>, metadata |-> None,
                   held |-> held, create_ok |-> create_ok,
                   st |-> "called", out |-> NoOutcome]

\* mdadm_create, from its call to its return or its exception
MdadmCreate ==
    /\ md # NotRun
    /\ md.fn = "mdadm_create"
    /\ md.st = "called"
    /\ md' = [md EXCEPT !.st = "done",
                        !.out = mdadm_create(md.md_devname, md.raidlevel, md.devices,
                                             md.spares, md.container, md.members,
                                             md.md_name, md.metadata, md.held,
                                             md.create_ok)]
    /\ UNCHANGED <<rvars, tvars, disk>>

NextCreate == MdadmCreate

SpecCreate == InitCreate /\ [][NextCreate]_vars

\* ---------------------------------------------------------------------
\* Properties of mdadm_create
\* ---------------------------------------------------------------------

Created == md # NotRun /\ md.fn = "mdadm_create" /\ md.st = "done"

HasContainer == ~md.container.none /\ md.container.v # <<>>

HasSpares == ~md.spares.none /\ md.spares.v # <<>>

\* the number of devices of the array: the members of the container when
\* one is given, the devices otherwise
DevCnt == IF HasContainer THEN Len(md.members) ELSE Len(md.devices)

BadDevname == ~valid_devpath(md.md_devname)

BadLevel == md.raidlevel \notin VALID_RAID_LEVELS

TooFewDevices ==
    /\ md_minimum_devices(md.raidlevel).st = "ok"
    /\ DevCnt < md_minimum_devices(md.raidlevel).min

SparesNotSupported == HasSpares /\ md.raidlevel \in NOSPARE_RAID_LEVELS

\* the steps that run a command or touch a device
Touching ==
    {"hostname", "get_holders", "zero_device", "udevadm_settle",
     "stop-exec-queue", "create", "lsmod", "find", "start-exec-queue"}

\* C20: when the md device path does not start with /dev, or the raid
\* level is not a valid level, or the devices are fewer than the minimum of
\* the level, or spares are given for a level without spares, mdadm_create
\* raises ValueError and has looked up no hostname, zeroed no device,
\* controlled no udev queue and run no mdadm --create.
C20_InvalidArgumentsRaiseFirst ==
    (Created /\ (BadDevname \/ BadLevel \/ TooFewDevices \/ SparesNotSupported)) =>
        /\ md.out.st = "ValueError"
        /\ \A i \in 1..Len(md.out.log) : md.out.log[i].op \notin Touching

\* A valid name and level, enough devices, and a spare for raid0.
C20_Witness ==
    /\ Created
    /\ ~BadDevname /\ ~BadLevel /\ ~TooFewDevices
    /\ SparesNotSupported
    /\ md.raidlevel = StrLevel("raid0")
    /\ Len(md.devices) = MaxDevices
    /\ md.out.st = "ValueError"

\* the steps of the call without the reading of the container's members,
\* each as <<op, at>>; the words of the create command are left out
Steps ==
    LET l == SelectSeq(md.out.log, LAMBDA e : e.op # "md_get_devices_list")
    IN  [i \in 1..Len(l) |-> <<l[i].op, IF l[i].op = "create" THEN <<>> ELSE l[i].at>>]

\* holders of a device, then its zeroing, device after device
HoldersThenZero ==
    [k \in 1..(2 * Len(md.devices)) |->
        IF k % 2 = 1 THEN <<"get_holders", md.devices[(k + 1) \div 2]>>
        ELSE <<"zero_device", md.devices[k \div 2]>>]

ZeroSpares ==
    IF HasSpares THEN [k \in 1..Len(md.spares.v) |-> <<"zero_device", md.spares.v[k]>>]
    ELSE <<>>

\* the queue of udev is stopped when step k is taken: a stop-exec-queue
\* came before it and no start-exec-queue since
QueueStoppedAt(k) ==
    \E j \in 1..(k - 1) :
        /\ md.out.log[j].op = "stop-exec-queue"
        /\ \A m \in (j + 1)..(k - 1) : md.out.log[m].op # "start-exec-queue"

\* C21: on a successful mdadm_create the steps are, in this order, the
\* hostname lookup, for every device its holders and then its zeroing, the
\* zeroing of every spare, udev settle, stop-exec-queue, mdadm --create,
\* start-exec-queue and udev settle on the md device; and on every call the
\* create command is issued only while the udev queue is stopped.
C21_CreateStepsInOrder ==
    Created =>
        /\ md.out.st = "ok" =>
              Steps = <<<<"hostname", <<>>>>>> \o HoldersThenZero \o ZeroSpares
                      \o <<<<"udevadm_settle", <<>>>>, <<"stop-exec-queue", <<>>>>,
                           <<"create", <<>>>>, <<"start-exec-queue", <<>>>>,
                           <<"udevadm_settle", md.md_devname.v>>>>
        /\ \A k \in 1..Len(md.out.log) :
              md.out.log[k].op = "create" => QueueStoppedAt(k)

\* A successful creation from MaxDevices devices and a spare.
C21_Witness ==
    /\ Created
    /\ md.out.st = "ok"
    /\ Len(md.devices) = MaxDevices
    /\ HasSpares

\* ---------------------------------------------------------------------
\* Further properties of the resolver, the merger and the tables
\* ---------------------------------------------------------------------

UnvalidatedCall == last.fn = "find_item_dependencies" /\ ~last.validate

\* C22: find_item_dependencies called with validate unset never fails with
\* InvalidDependency, neither on the edges of the requested item nor on
\* the edges reached by recursion.
C22_UnvalidatedNeverInvalid ==
    UnvalidatedCall => last.res.st # "InvalidDependency"

\* the entries made from an action with the extended flag
ExtendedEntries == {i \in 1..Len(added) : Flag(added[i]) = "extended"}

\* C23: after any sequence of adds an MBR table holds at most one entry
\* made from an extended action, and the remembered extended entry is that
\* entry (none is remembered when there is none).
C23_AtMostOneExtended ==
    IsDOS =>
        /\ Cardinality(ExtendedEntries) <= 1
        /\ ExtendedEntries = {} => table.extended = 0
        /\ \A i \in ExtendedEntries : table.extended = i

\* the level of an item: the number of entries of the tree it heads
LevelOf(id) ==
    LET i == CHOOSE i \in 1..Len(trees.ctrees) : trees.ctrees[i][1].id = id
    IN  Len(trees.ctrees[i])

\* the triple the list is sorted by
SortTriple(item) ==
    <<LevelOf(item.id), TypeRank(item.type), KeyField(item, _stype_to_order_key(item.type))>>

\* the lexicographic order on triples of numbers
TripleLeq(a, b) ==
    \/ a[1] < b[1]
    \/ a[1] = b[1] /\ a[2] < b[2]
    \/ a[1] = b[1] /\ a[2] = b[2] /\ a[3] <= b[3]

\* C24: the list merged from one tree per item is sorted by (level, type
\* name, order-key value): levels never decrease along the list, within a
\* level the types come in alphabetical order, and within a level and a
\* type the order key never decreases.
C24_SortedByLevelTypeKey ==
    Merged =>
        \A j \in 1..(Len(merged.list) - 1) :
            TripleLeq(SortTriple(merged.list[j]), SortTriple(merged.list[j + 1]))

\* Two items of one level and one type stand in the order of their keys,
\* against the order of their definition, and an item of a higher level
\* follows them.
C24_Witness ==
    /\ Merged
    /\ \E i, j \in 1..Len(merged.list) :
          /\ i < j
          /\ SortTriple(merged.list[i])[1] = SortTriple(merged.list[j])[1]
          /\ SortTriple(merged.list[i])[2] = SortTriple(merged.list[j])[2]
          /\ SortTriple(merged.list[i])[3] < SortTriple(merged.list[j])[3]
          /\ IndexOf(config, merged.list[j]) < IndexOf(config, merged.list[i])
          /\ \E k \in 1..Len(merged.list) :
                SortTriple(merged.list[k])[1] > SortTriple(merged.list[j])[1]

\* the handler failed on an action while it computed the table
FailedInLoop ==
    /\ Tabled
    /\ disk.out.st \in {"TooManyPrimaries", "MissingExtendedPartition",
                        "PartitionNotFound", "PreserveMismatch"}

\* C25: when disk_handler_v2 fails on an action while it computes the
\* table, nothing has been written to the disk: no region was zeroed, no
\* partition was wiped and the table was not applied.
C25_FailureWritesNothing ==
    FailedInLoop =>
        /\ \A e \in Range(disk.out.log) :
              e.op \notin {"zero", "wipe_old", "wipe_new", "apply"}
        /\ disk.out.parts = disk.parts

\* a handled action marked preserve that carries no wipe field
KeptAsIs(i) ==
    /\ i \in Handled
    /\ Marked(disk.part_actions[i])
    /\ "wipe" \notin DOMAIN disk.part_actions[i]

\* C26: the partition of an action marked preserve without wipe field is
\* not written to at any step of disk_handler_v2: its first mebibyte is not
\* zeroed while the table is computed, it is not wiped before the table is
\* applied and it is not wiped after.
C26_PreservedNeverWritten ==
    Tabled =>
        \A i \in Handled :
            KeptAsIs(i) =>
                /\ Zeroed(StartOf(i)) = 0
                /\ ~Logged("wipe_old", StartOf(i))
                /\ ~Logged("wipe_new", StartOf(i))

\* the last call of add succeeded
AddedOk == res # NoCall /\ res.st = "ok"

\* the entries of the table before the last successful add
Prior == SubSeq(table.entries, 1, Len(table.entries) - 1)

\* the smallest multiple of m that is not below x
Ceil(x, m) == ((x + m - 1) \div m) * m

\* the greatest element of a non-empty set of numbers
Greatest(S) == CHOOSE i \in S : \A j \in S : j <= i

PriorPrimaries == {i \in 1..Len(Prior) : Prior[i].number <= 4}

PriorLogicals == {i \in 1..Len(Prior) : Prior[i].number > 4}

\* where the chain of logical partitions goes on: one mebibyte after the
\* start of the extended entry, or after the end of the last logical entry
ChainPosition ==
    IF PriorLogicals = {} THEN Prior[table.extended].start + Mib
    ELSE End(Prior[Greatest(PriorLogicals)]) + Mib

\* the start of the entry just added, given where a non-logical entry
\* without offset is placed from
StartsFrom(reference) ==
    /\ ONE_MIB_BYTES % table.sector_bytes = 0
    /\ IF "offset" \in DOMAIN res.action
       THEN res.entry.start = res.action["offset"] \div table.sector_bytes
       ELSE IF IsDOS /\ Flag(res.action) = "logical"
       THEN res.entry.start = Ceil(ChainPosition, Mib)
       ELSE res.entry.start = Ceil(reference, Mib)

\* C27 as stated: in a table of either flavor an entry added without
\* offset starts at the smallest multiple of one mebibyte in sectors not
\* below the end of the previous entry (the chain position for a logical
\* partition), at one mebibyte in an empty table; an entry added with an
\* offset starts at that offset in sectors.
C27_AlignedAfterPreviousEntry ==
    AddedOk => StartsFrom(IF Prior = <<>> THEN Mib ELSE End(Prior[Len(Prior)]))

\* C27: the same, where the reference position on an MBR table is the end
\* of the last entry numbered 1 to 4 (one mebibyte when there is none), and
\* on a GPT table the end of the last entry.
C27_AlignedAfterReference ==
    AddedOk =>
        StartsFrom(IF IsGPT
                   THEN (IF Prior = <<>> THEN Mib ELSE End(Prior[Len(Prior)]))
                   ELSE (IF PriorPrimaries = {} THEN Mib
                         ELSE End(Prior[Greatest(PriorPrimaries)])))

\* On an MBR table a primary is added after a logical entry and placed
\* after the extended entry, which ends off a mebibyte boundary.
C27_Witness ==
    /\ AddedOk
    /\ IsDOS
    /\ Flag(res.action) # "logical"
    /\ "offset" \notin DOMAIN res.action
    /\ Prior # <<>>
    /\ Prior[Len(Prior)].number > 4
    /\ PriorPrimaries # {}
    /\ ~Aligned(End(Prior[Greatest(PriorPrimaries)]))
    /\ res.entry.start > End(Prior[Greatest(PriorPrimaries)])

\* C28: whenever mdadm_create has issued stop-exec-queue it issues
\* start-exec-queue before it finishes, whether the create command
\* succeeded or failed.
C28_QueueRestarted ==
    Created =>
        \A j \in 1..Len(md.out.log) :
            md.out.log[j].op = "stop-exec-queue" =>
                \E k \in (j + 1)..Len(md.out.log) : md.out.log[k].op = "start-exec-queue"

\* no item reaches itself by following dependency fields
Acyclic(cfg) == \A id \in Ids(cfg) : id \notin Closure(cfg, id)

\* the number of edges of the longest dependency chain that starts at id
\* and has at most n edges
RECURSIVE LongestChain(_, _, _)
LongestChain(cfg, id, n) ==
    IF n = 0 \/ id \notin Ids(cfg) \/ DirectDeps(cfg, id) = {} THEN 0
    ELSE LET below == {LongestChain(cfg, d, n - 1) : d \in DirectDeps(cfg, id)}
         IN  1 + Greatest(below)

FindCall == last.fn = "find_item_dependencies"

\* C29: on a configuration without dependency cycle find_item_dependencies
\* ends without exhausting the recursion, a list it returns is finite, and
\* the calls nested below the first one are never deeper than the longest
\* dependency chain that starts at the requested item.
C29_TerminatesOnAcyclic ==
    (FindCall /\ Acyclic(config)) =>
        /\ last.res.st # "RecursionError"
        /\ Len(last.res.deps) \in Nat
        /\ last.res.depth <= 1 + LongestChain(config, last.item_id, Len(config))

\* A call that returns after following a chain through every item of the
\* configuration.
C29_Witness ==
    /\ FindCall
    /\ Acyclic(config)
    /\ last.res.st = "ok"
    /\ Len(config) = MaxItems
    /\ LongestChain(config, last.item_id, Len(config)) = MaxItems - 1
    /\ last.res.depth = MaxItems

\* a step that is a call of add on a table
AddStep == table.label \in {"gpt", "dos"} /\ calls' = calls + 1

\* C30: a successful add appends one entry, the one it returns, at the end
\* of the table and leaves the earlier entries as they were; a failing add
\* leaves the entries and the remembered extended entry as they were.
C30_AddFrame ==
    [][AddStep =>
          /\ res'.st = "ok" =>
                /\ Len(table'.entries) = Len(table.entries) + 1
                /\ table'.entries[Len(table'.entries)] = res'.entry
                /\ SubSeq(table'.entries, 1, Len(table.entries)) = table.entries
          /\ res'.st # "ok" =>
                /\ res'.st \in {"TooManyPrimaries", "MissingExtendedPartition"}
                /\ table'.entries = table.entries
                /\ table'.extended = table.extended]_vars

\* An add failed on an MBR table that holds entries and remembers an
\* extended entry.
C30_Witness ==
    /\ IsDOS
    /\ res # NoCall
    /\ res.st = "TooManyPrimaries"
    /\ table.extended # 0
    /\ Len(table.entries) >= 2

=============================================================================
